---------------------------- MODULE Spec2Model ----------------------------
(***************************************************************************)
(* A model of sentinelPot: the batch drivers and the bounded work pool     *)
(* they fan work out through (preprocess_level2.py, preprocess_level3.py), *)
(* the two harmonic-fit strategies (harmonic_fitting, harmonic_fitting_br) *)
(* and the day-of-year aligner (_get_doy, _adjust_doy).                    *)
(*                                                                         *)
(* Several state machines share the module, one specification each:       *)
(*   Spec / FairSpec  a batch driver and its FixedThreadPoolExecutor       *)
(*   SpecFit          harmonic_fitting, then harmonic_fitting_br, on the   *)
(*                    same tile directory                                  *)
(*   SpecStack        the same on a stack of rasters of mixed geometry     *)
(*   SpecDoy          _get_doy applied to a list of dated file names       *)
(*   SpecDesign       _getVariable applied to an array of coordinates      *)
(*   SpecGf           guided_filter_batch and guided_filter                *)
(*   SpecEach         s1_harmonic_each, as s1_harmonic_batch calls it      *)
(*   SpecCalls        the calls of a batch driver on its pool              *)
(*   SpecS2           s2_preprocess_each                                   *)
(*   SpecWasp         s2_wasp                                              *)
(*   SpecHub          scihub_downloader                                    *)
(*   SpecPeps         peps_downloader                                      *)
(*   SpecScenes       SentinelClient.get_scenes                            *)
(* The variables of the machines a specification does not run stay at the  *)
(* idle values its Init gives them.                                        *)
(***************************************************************************)
EXTENDS Integers, Sequences, FiniteSets, TLC

VARIABLES
    \* ---- batch driver and pool
    driver,         \* the batch driver that runs
    parallel,       \* s1_preprocess(parallel=...)
    nUnits,         \* len(fnames) / len(tile_ids) / len(features)
    poolSize,       \* FixedThreadPoolExecutor(size=threads_number)
    pc,             \* the driver's position
    i,              \* units handled so far by the driver's loop
    success_count,
    failure_count,
    queue,          \* pool: tasks accepted and not yet started (FIFO)
    slot,           \* pool: worker -> the task it runs, or Idle
    closed,         \* pool: close() has been called
    ret,            \* task -> what submit() returned for it
    starts,         \* task -> times a worker started it
    outcome,        \* task -> "none" | "ok" | "failed"
    \* ---- the harmonic fit of one tile
    dirExists,      \* os.path.isdir(dir_ard)
    dirArd,         \* the file names in dir_ard
    rasters,        \* file name -> row -> col -> the pixel as stored
    novalue,        \* band.GetNoDataValue() of the rasters
    pol,            \* the polarization asked for
    threads_number, \* config['parallel']['threads_number']
    fitFn,          \* the function that runs
    fpc,            \* its position
    ended,          \* function -> "no" | "done" | "aborted"
    fnames,         \* the sorted, filtered file names
    row_each,       \* harmonic_fitting: the row loop's index
    lasso_coefs,    \* the coefficient buffer: row -> col -> coefficients
    tmpExists,      \* tmp_<tile>.dat exists
    writes,         \* row -> times the row of the buffer was written
    writers,        \* row -> the tasks that wrote it
    outRaster,      \* function -> the coefficient raster it wrote
    meta,           \* file name -> height, width, geotransform, projection
    outMeta,        \* function -> the same of the raster it wrote, and bands
    \* ---- guided_filter_batch and guided_filter
    clipExists,     \* os.path.isdir(dir_clip)
    logger,         \* the logger argument: "None" or "logger"
    dirClip,        \* the file names in dir_clip
    gfBand,         \* band 1 of the rasters of dir_clip, as stored
    gfNoData,       \* its GetNoDataValue(): "None", a number or NaN
    gfKsize,        \* config['harmonic']['kernel']
    gfEps,          \* config['harmonic']['eps']
    gfpc,           \* guided_filter_batch's position
    gfEnd,          \* how guided_filter_batch ended
    gfPrinted,      \* what it printed
    gfLogged,       \* what it logged
    gfPending,      \* the files submitted and not yet filtered
    dirArdOut,      \* dir_ard: file name -> the band guided_filter wrote
    \* ---- the day-of-year aligner
    doyNames,       \* _get_doy: the file names it is given
    doyFreq,        \* _get_doy: freq
    doy_arr,        \* _get_doy: what it returned
    apc,            \* "idle" | _get_doy: "start", "done" | _getVariable:
                    \* "design", "built"
    designPairs,    \* _getVariable: the number of harmonic pairs
    design,         \* _getVariable: what it returned
    \* ---- s1_harmonic_each, called by s1_harmonic_batch
    parallel_tile,  \* s1_harmonic_batch(parallel_tile=...)
    batch_big_ram,  \* s1_harmonic_batch(big_ram=...)
    big_ram,        \* s1_harmonic_each's parameter big_ram
    keep_mid,       \* config['harmonic']['keep_mid']
    epc,            \* s1_harmonic_each's position
    clipped,        \* dir_clip_<tile_index> exists
    polIdx,         \* polarizations the loop has finished
    fitLog,         \* the fits called: function, polarization, how it ended
    dirCoefs,       \* the rasters written to dir_coefs, in order
    dirsRemoved,    \* dir_clip and dir_ard were removed
    \* ---- the calls of a batch driver on its pool
    calls,          \* the pool methods the driver has called, in order
    \* ---- s2_preprocess_each
    download_path,  \* the SAFE directories and zips in download_path
    tile_name,      \* the product to process
    sen2cor_path,   \* config['sen2cor']['sen2cor_path']: "missing", "exists"
    cmdStatus,      \* the exit status of the sen2cor command, -1: not run
    keep,           \* the SAFE directory was there before
    s2pc,           \* s2_preprocess_each's position
    s2End,          \* "no" or the message it exited with
    s2Log,          \* the stages it ran, in order
    \* ---- s2_wasp
    time_series,    \* config['wasp']['time_series']: the boundary dates
    zips,           \* the dates of the tile's zips in processed_path
    safe_dirs,      \* the dates of the tile's directories in processed_path
    docker,         \* config['wasp']['docker']
    safe_path,      \* the directories listed before the loop
    wi,             \* the loop's i
    syntheses,      \* the wasp runs: interval, products, whether it succeeded
    wpc,            \* s2_wasp's position
    waspEnd,        \* "no", "done" or the error it ended with
    \* ---- scihub_downloader
    platformname,   \* config['sentinel']['platformname']
    directory_path, \* the files of the download directory
    hubScenes,      \* scenes: the ids queried
    scene_ids,      \* the scenes left at the head of the pass
    hubPolls,       \* the answers to the requests of the offline scene
    hubWaits,       \* the requests that were followed by a sleep
    hpc,            \* scihub_downloader's position
    hubEnd,         \* "no", "done" or the error it ended with
    \* ---- peps_downloader
    download_dict,  \* the products selected from the catalog
    storage_dict,   \* where the catalog says each of them is stored
    write_dir,      \* the products in options.write_dir, as zip or as SAFE
    no_download,    \* options.no_download
    extract,        \* options.extract
    NbProdsToDownload, \* the count the retry loop runs on
    pk,             \* the position in the product loop of the pass
    discarded,      \* the products check_rename gave up in this pass
    ppc,            \* peps_downloader's position
    pepsEnd,        \* "no", "done" or the exit it ended with
    \* ---- SentinelClient.get_scenes
    client_platform, \* self.platformname
    footprint,      \* per feature of the geojson, what its query returns
    all_scenes,     \* the scenes gathered
    queried,        \* the feature numbers queried
    gi,             \* the loop's i
    gpc,            \* get_scenes's position
    gsEnd           \* "no", "returned" or the exit it ended with

poolVars == <<driver, parallel, nUnits, poolSize, pc, i, success_count,
              failure_count, queue, slot, closed, ret, starts, outcome>>

fitVars == <<dirExists, dirArd, rasters, novalue, pol, threads_number, fitFn,
             fpc, ended, fnames, row_each, lasso_coefs, tmpExists, writes, writers, outRaster, meta,
             outMeta>>

gfVars == <<clipExists, logger, dirClip, gfBand, gfNoData, gfKsize, gfEps, gfpc,
            gfEnd, gfPrinted, gfLogged, gfPending, dirArdOut>>

doyVars == <<doyNames, doyFreq, doy_arr, apc, designPairs, design>>

eachVars == <<parallel_tile, batch_big_ram, big_ram, keep_mid, epc, clipped,
              polIdx, fitLog, dirCoefs, dirsRemoved>>
callVars == <<calls>>
s2Vars == <<download_path, tile_name, sen2cor_path, cmdStatus, keep, s2pc,
            s2End, s2Log>>
waspVars == <<time_series, zips, safe_dirs, docker, safe_path, wi, syntheses,
              wpc, waspEnd>>
hubVars == <<platformname, directory_path, hubScenes, scene_ids, hubPolls,
             hubWaits, hpc, hubEnd>>
pepsVars == <<download_dict, storage_dict, write_dir, no_download, extract,
              NbProdsToDownload, pk, discarded, ppc, pepsEnd>>
sceneVars == <<client_platform, footprint, all_scenes, queried, gi, gpc, gsEnd>>
\* The variables of the stages around the pool and the fit.
stageVars == <<eachVars, callVars, s2Vars, waspVars, hubVars, pepsVars,
               sceneVars>>
\* The same without those of one stage.
notEachVars == <<callVars, s2Vars, waspVars, hubVars, pepsVars, sceneVars>>
notCallVars == <<eachVars, s2Vars, waspVars, hubVars, pepsVars, sceneVars>>
notS2Vars == <<eachVars, callVars, waspVars, hubVars, pepsVars, sceneVars>>
notWaspVars == <<eachVars, callVars, s2Vars, hubVars, pepsVars, sceneVars>>
notHubVars == <<eachVars, callVars, s2Vars, waspVars, pepsVars, sceneVars>>
notPepsVars == <<eachVars, callVars, s2Vars, waspVars, hubVars, sceneVars>>
notSceneVars == <<eachVars, callVars, s2Vars, waspVars, hubVars, pepsVars>>

vars == <<poolVars, fitVars, gfVars, doyVars, stageVars>>

-----------------------------------------------------------------------------
(* Bounds *)

MaxUnits == 3
MaxSize == 2
\* the rasters' height (RasterYSize); they are one pixel wide
NRows == 2
\* the largest threads_number of the fit's process pool
MaxProcs == 2
\* config['harmonic']['harmonic_pairs']
HarmonicPairs == 1
\* days of a common year; a leap year has one more
DaysPerYear == 4
\* the longest list of file names given to _get_doy
MaxDates == 3
\* the years of the file names are 0..MaxYear
MaxYear == 1
\* the width of the rasters of dir_clip; they are one pixel high
GfWidth == 3
\* the largest number of harmonic pairs given to _getVariable
MaxPairs == 2
\* Products in download_path
MaxTiles == 2
\* The days the products of a tile are spread over
WaspDays == 3
\* The scenes a query can return
MaxScenes == 2
\* The requests of an offline scene answered otherwise than by 202
MaxPolls == 2
\* The products a catalog search can select
MaxProds == 2
\* The features of a footprint geojson
MaxFeatures == 3

-----------------------------------------------------------------------------
(* Helpers *)

\* A worker's slot holds the set of the tasks it runs: none or one.
Idle == {}
NoRet == "none"
BoolStr(b) == IF b THEN "True" ELSE "False"

Range(f) == {f[x] : x \in DOMAIN f}

-----------------------------------------------------------------------------
(***************************************************************************)
(* The batch drivers.  Each one builds a FixedThreadPoolExecutor, submits  *)
(* one task per unit, drains, closes and logs its counts.                  *)
(***************************************************************************)

Drivers == {"guided_filter_batch", "s1_harmonic_batch", "s2_wasp_batch",
            "s1_preprocess", "s2_preprocess"}

\* guided_filter_batch ignores what submit returns and keeps no counts.
Counting(d) == d # "guided_filter_batch"

Tasks == 0..MaxUnits
\* The task of a caller that submits once more after close().
LateTask == MaxUnits

Running == UNION {slot[w] : w \in DOMAIN slot}

-----------------------------------------------------------------------------
(***************************************************************************)
(* FixedThreadPoolExecutor (fixed_thread_pool_executor.py is not among the *)
(* sources; modelled from the BoundedWorkPool contract of the spec).       *)
(***************************************************************************)

\* FixedThreadPoolExecutor(size=N): N workers, nothing queued.
PoolNew(n) == [w \in 1..n |-> Idle]

\* A submit that accepts on a closed pool.
PoolSubmitAfterClose(t) ==
    [accepted |-> TRUE, queue |-> Append(queue, t), slot |-> slot]

\* A submit that spawns a worker for the task when every worker is busy.
PoolSubmitSpawning(t) ==
    IF closed
    THEN [accepted |-> FALSE, queue |-> queue, slot |-> slot]
    ELSE IF \A w \in DOMAIN slot : slot[w] # Idle
         THEN [accepted |-> TRUE, queue |-> queue,
               slot |-> [w \in 1..(Len(slot) + 1) |->
                            IF w \in DOMAIN slot THEN slot[w] ELSE {t}]]
         ELSE [accepted |-> TRUE, queue |-> Append(queue, t), slot |-> slot]

\* submit(task, *args) -> accepted: enqueue unless the pool is closed.
PoolSubmit(t) ==
    IF closed
    THEN [accepted |-> FALSE, queue |-> queue, slot |-> slot]
    ELSE [accepted |-> TRUE, queue |-> Append(queue, t), slot |-> slot]

\* A pool that runs a failed task again.
PoolAfterTaskRetrying(t, res) ==
    IF res = "failed" THEN Append(queue, t) ELSE queue

\* The queue after task t ended with res: the pool moves on, no retry.
PoolAfterTask(t, res) == queue

\* A drain that waits for the queue only.
PoolDrainedQueueOnly == queue = <<>>

\* drain() returns when nothing submitted is queued or running.
PoolDrained == queue = <<>> /\ Running = {}

UNCHANGED_DRIVER == UNCHANGED <<driver, parallel, nUnits, poolSize, pc, i,
                                success_count, failure_count, closed, ret,
                                fitVars, gfVars, doyVars, stageVars>>

\* An idle worker takes the head of the queue.
WorkerStart(w) ==
    /\ w \in DOMAIN slot
    /\ slot[w] = Idle
    /\ queue # <<>>
    /\ slot' = [slot EXCEPT ![w] = {Head(queue)}]
    /\ queue' = Tail(queue)
    /\ starts' = [starts EXCEPT ![Head(queue)] = @ + 1]
    /\ UNCHANGED outcome
    /\ UNCHANGED_DRIVER

\* The task a worker runs ends, by success or by failure.
WorkerFinish(w, res) ==
    /\ w \in DOMAIN slot
    /\ slot[w] # Idle
    /\ \E t \in slot[w] :
        /\ outcome' = [outcome EXCEPT ![t] = res]
        /\ queue' = PoolAfterTask(t, res)
    /\ slot' = [slot EXCEPT ![w] = Idle]
    /\ UNCHANGED starts
    /\ UNCHANGED_DRIVER

-----------------------------------------------------------------------------
(* The driver's steps *)

\* One iteration of the submit loop:
\*   if executor.submit(task, unit, ...) is True: success_count += 1
\*   else: failure_count += 1
DriverSubmit ==
    /\ pc = "submit"
    /\ i < nUnits
    /\ LET r == PoolSubmit(i) IN
        /\ queue' = r.queue
        /\ slot' = r.slot
        /\ ret' = [ret EXCEPT ![i] = BoolStr(r.accepted)]
        /\ success_count' = IF Counting(driver) /\ BoolStr(r.accepted) = "True"
                            THEN success_count + 1 ELSE success_count
        /\ failure_count' = IF Counting(driver) /\ BoolStr(r.accepted) # "True"
                            THEN failure_count + 1 ELSE failure_count
    /\ i' = i + 1
    /\ pc' = IF i + 1 = nUnits THEN "drain" ELSE "submit"
    /\ UNCHANGED <<driver, parallel, nUnits, poolSize, closed, starts, outcome>>
    /\ UNCHANGED <<fitVars, gfVars, doyVars, stageVars>>

\* s1_preprocess(parallel=False): one iteration of
\*   if s1_gpt_process(fname, ...) is True: success_count += 1
\*   else: failure_count += 1
\* s1_gpt_process has no return statement: it returns None.
S1GptProcessResult(res) == "None"

SeqCall(res) ==
    /\ pc = "seq"
    /\ i < nUnits
    /\ starts' = [starts EXCEPT ![i] = @ + 1]
    /\ outcome' = [outcome EXCEPT ![i] = res]
    /\ success_count' = IF S1GptProcessResult(res) = "True"
                        THEN success_count + 1 ELSE success_count
    /\ failure_count' = IF S1GptProcessResult(res) # "True"
                        THEN failure_count + 1 ELSE failure_count
    /\ i' = i + 1
    /\ pc' = IF i + 1 = nUnits THEN "done" ELSE "seq"
    /\ UNCHANGED <<driver, parallel, nUnits, poolSize, queue, slot, closed, ret>>
    /\ UNCHANGED <<fitVars, gfVars, doyVars, stageVars>>

\* executor.drain() returns.
DrainReturn ==
    /\ pc = "drain"
    /\ PoolDrained
    /\ pc' = "close"
    /\ UNCHANGED <<driver, parallel, nUnits, poolSize, i, success_count,
                   failure_count, queue, slot, closed, ret, starts, outcome>>
    /\ UNCHANGED <<fitVars, gfVars, doyVars, stageVars>>

\* executor.close(), then the driver logs its counts and returns.
Close ==
    /\ pc = "close"
    /\ closed' = TRUE
    /\ pc' = "done"
    /\ UNCHANGED <<driver, parallel, nUnits, poolSize, i, success_count,
                   failure_count, queue, slot, ret, starts, outcome>>
    /\ UNCHANGED <<fitVars, gfVars, doyVars, stageVars>>

\* A caller submits once more on the pool the driver has closed.
LateSubmit ==
    /\ pc = "done"
    /\ closed
    /\ ret[LateTask] = NoRet
    /\ LET r == PoolSubmit(LateTask) IN
        /\ queue' = r.queue
        /\ slot' = r.slot
        /\ ret' = [ret EXCEPT ![LateTask] = BoolStr(r.accepted)]
    /\ UNCHANGED <<driver, parallel, nUnits, poolSize, pc, i, success_count,
                   failure_count, closed, starts, outcome>>
    /\ UNCHANGED <<fitVars, gfVars, doyVars, stageVars>>

PoolInit ==
    /\ driver \in Drivers
    /\ parallel \in BOOLEAN
    /\ (driver # "s1_preprocess" => parallel)
    /\ nUnits \in 0..MaxUnits
    /\ poolSize \in 1..MaxSize
    /\ pc = IF ~parallel THEN (IF nUnits = 0 THEN "done" ELSE "seq")
            ELSE IF nUnits = 0 THEN "drain" ELSE "submit"
    /\ i = 0
    /\ success_count = 0
    /\ failure_count = 0
    /\ queue = <<>>
    /\ slot = PoolNew(poolSize)
    /\ closed = FALSE
    /\ ret = [t \in Tasks |-> NoRet]
    /\ starts = [t \in Tasks |-> 0]
    /\ outcome = [t \in Tasks |-> "none"]

WorkerStep ==
    \E w \in DOMAIN slot :
        \/ WorkerStart(w)
        \/ \E res \in {"ok", "failed"} : WorkerFinish(w, res)

PoolNext ==
    \/ DriverSubmit
    \/ \E res \in {"ok", "failed"} : SeqCall(res)
    \/ DrainReturn
    \/ Close
    \/ LateSubmit
    \/ WorkerStep

\* The fit does not run.
FitIdle ==
    /\ dirExists = FALSE
    /\ dirArd = {}
    /\ rasters = <<>>
    /\ novalue = "nan"
    /\ pol = "VV"
    /\ threads_number = 1
    /\ fitFn = "idle"
    /\ fpc = "idle"
    /\ ended = <<>>
    /\ fnames = <<>>
    /\ row_each = 0
    /\ lasso_coefs = <<>>
    /\ tmpExists = FALSE
    /\ writes = <<>>
    /\ writers = <<>>
    /\ outRaster = <<>>
    /\ meta = <<>>
    /\ outMeta = <<>>

GfIdle ==
    /\ clipExists = FALSE
    /\ logger = "None"
    /\ dirClip = {}
    /\ gfBand = <<>>
    /\ gfNoData = "None"
    /\ gfKsize = 1
    /\ gfEps = 0
    /\ gfpc = "idle"
    /\ gfEnd = "no"
    /\ gfPrinted = <<>>
    /\ gfLogged = <<>>
    /\ gfPending = {}
    /\ dirArdOut = <<>>

DoyIdle ==
    /\ doyNames = <<>>
    /\ doyFreq = 0
    /\ doy_arr = <<>>
    /\ apc = "idle"
    /\ designPairs = 0
    /\ design = <<>>

EachIdle ==
    /\ parallel_tile = FALSE
    /\ batch_big_ram = FALSE
    /\ big_ram = FALSE
    /\ keep_mid = FALSE
    /\ epc = "idle"
    /\ clipped = FALSE
    /\ polIdx = 0
    /\ fitLog = <<>>
    /\ dirCoefs = <<>>
    /\ dirsRemoved = FALSE

CallsIdle == calls = <<>>

S2Idle ==
    /\ download_path = {}
    /\ tile_name = 0
    /\ sen2cor_path = "missing"
    /\ cmdStatus = -1
    /\ keep = TRUE
    /\ s2pc = "idle"
    /\ s2End = "no"
    /\ s2Log = <<>>

WaspIdle ==
    /\ time_series = <<>>
    /\ zips = {}
    /\ safe_dirs = {}
    /\ docker = FALSE
    /\ safe_path = {}
    /\ wi = 0
    /\ syntheses = <<>>
    /\ wpc = "idle"
    /\ waspEnd = "no"

HubIdle ==
    /\ platformname = "S1"
    /\ directory_path = {}
    /\ hubScenes = {}
    /\ scene_ids = <<>>
    /\ hubPolls = <<>>
    /\ hubWaits = <<>>
    /\ hpc = "idle"
    /\ hubEnd = "no"

PepsIdle ==
    /\ download_dict = {}
    /\ storage_dict = <<>>
    /\ write_dir = {}
    /\ no_download = FALSE
    /\ extract = FALSE
    /\ NbProdsToDownload = 0
    /\ pk = 1
    /\ discarded = {}
    /\ ppc = "idle"
    /\ pepsEnd = "no"

ScenesIdle ==
    /\ client_platform = "S1"
    /\ footprint = <<>>
    /\ all_scenes = {}
    /\ queried = {}
    /\ gi = 0
    /\ gpc = "idle"
    /\ gsEnd = "no"

StageIdle == EachIdle /\ CallsIdle /\ S2Idle /\ WaspIdle /\ HubIdle /\ PepsIdle
             /\ ScenesIdle

Init == PoolInit /\ FitIdle /\ GfIdle /\ DoyIdle /\ StageIdle

Next == PoolNext

Spec == Init /\ [][Next]_vars

\* Every task terminates and the scheduler runs a worker that can run.
FairSpec == Spec /\ WF_vars(WorkerStep) /\ WF_vars(DrainReturn)

-----------------------------------------------------------------------------
(***************************************************************************)
(* Dates and the day-of-year aligner.  A date is <<year, day of year>>;    *)
(* year 0 is a leap year, as every fourth year after it.                   *)
(***************************************************************************)

IsLeap(year) == year % 4 = 0
YearLen(year) == IF IsLeap(year) THEN DaysPerYear + 1 ELSE DaysPerYear

\* The order of datetime values, as a number.
DateOrd(date) == date[1] * (DaysPerYear + 2) + date[2]

\* _get_date(fname): the date in the file name
_get_date(fname) == fname.date

\* _get_date_doy(date): date.timetuple().tm_yday
_get_date_doy(date) == date[2]

\* Insertion of the pair p = <<key, item>> into the sorted s, after the pairs
\* whose key is not greater.
RECURSIVE InsertPair(_, _)
InsertPair(p, s) ==
    IF s = <<>> THEN <<p>>
    ELSE IF Head(s)[1] <= p[1] THEN <<Head(s)>> \o InsertPair(p, Tail(s))
    ELSE <<p>> \o s

\* A stable sort of pairs <<key, item>> by key.
RECURSIVE SortPairs(_)
SortPairs(s) ==
    IF s = <<>> THEN <<>>
    ELSE InsertPair(s[Len(s)], SortPairs(SubSeq(s, 1, Len(s) - 1)))

Items(pairs) == [j \in DOMAIN pairs |-> pairs[j][2]]

\* list.sort() of numbers
SortInts(s) == Items(SortPairs([j \in DOMAIN s |-> <<s[j], s[j]>>]))

\* list.sort() of dates
SortDates(s) == Items(SortPairs([j \in DOMAIN s |-> <<DateOrd(s[j]), s[j]>>]))

\* A sort of the names by the day of year of their dates.
_sort_fnames_by_doy(names) ==
    Items(SortPairs([j \in DOMAIN names |->
                        <<_get_date_doy(_get_date(names[j])), names[j]>>]))

\* _sort_fnames(fnames): the names in the order np.argsort gives their dates
_sort_fnames(names) ==
    Items(SortPairs([j \in DOMAIN names |->
                        <<DateOrd(_get_date(names[j])), names[j]>>]))

\* An adjustment that forgets to wrap the negative values forward.
_adjust_doy_nowrap(doys, start, freq) ==
    [j \in DOMAIN doys |-> doys[j] - start]

\* An adjustment that wraps forward by one day less than freq.
_adjust_doy_short(doys, start, freq) ==
    [j \in DOMAIN doys |->
        LET doy == doys[j] - start
        IN  IF doy >= 0 THEN doy ELSE doy + freq - 1]

\* An adjustment whose wrap leaves out the closing "- start".
_adjust_doy_keepstart(doys, start, freq) ==
    [j \in DOMAIN doys |->
        LET doy == doys[j] - start
        IN  IF doy >= 0 THEN doy ELSE doy + start + freq]

\* _adjust_doy(doys, start, freq)
_adjust_doy(doys, start, freq) ==
    [j \in DOMAIN doys |->
        LET doy == doys[j] - start
        IN  IF doy >= 0 THEN doy ELSE doy + start + freq - start]

\* A _get_doy that adjusts without looking whether the days are in order.
_get_doy_adjusting(names, freq) ==
    LET dates == SortDates([j \in DOMAIN names |-> _get_date(names[j])])
        doys == [j \in DOMAIN dates |-> _get_date_doy(dates[j])]
    IN  _adjust_doy(doys, doys[1], freq)

\* _get_doy(fnames, freq)
_get_doy(names, freq) ==
    LET dates == SortDates([j \in DOMAIN names |-> _get_date(names[j])])
        doys == [j \in DOMAIN dates |-> _get_date_doy(dates[j])]
        doys_check == SortInts(doys)
    IN  IF doys_check # doys THEN _adjust_doy(doys, doys[1], freq) ELSE doys

-----------------------------------------------------------------------------
(***************************************************************************)
(* The design matrix.  An entry cos(2*pi*h*t/freq - ph*pi/2) is kept as    *)
(* the record of h, ph, t and freq.                                        *)
(***************************************************************************)

\* n / 2 as an integer division
FloorHalf(n) == n \div 2

\* np.ceil(n / 2)
CeilHalf(n) == (n + 1) \div 2

\* A _getVariable that leaves column 0 as the cosine it computed.
_getVariable_cos0(freq, day_arr, n) ==
    [r \in DOMAIN day_arr |->
        [c \in 1..n |->
            [kind |-> "cos", h |-> (c \div 2), ph |-> (c - 1) % 2,
             t |-> day_arr[r], freq |-> freq]]]

\* _getVariable(freq, day_arr, n): one row per day, n columns; column 0 is
\* overwritten with the day.
_getVariable(freq, day_arr, n) ==
    [r \in DOMAIN day_arr |->
        [c \in 1..n |->
            IF c = 1 THEN [kind |-> "t", t |-> day_arr[r]]
            ELSE [kind |-> "cos", h |-> CeilHalf(c - 1), ph |-> (c - 1) % 2,
                  t |-> day_arr[r], freq |-> freq]]]

-----------------------------------------------------------------------------
(***************************************************************************)
(* The harmonic fit of one tile: harmonic_fitting and harmonic_fitting_br. *)
(***************************************************************************)

NaN == "nan"
\* a numeric no-data value, and a valid observation
NoDataNumber == "-9999"
Observation == "v1"

\* float comparison: NaN equals nothing
FloatEq(a, b) == a # NaN /\ b # NaN /\ a = b
IsNaN(a) == a = NaN

Rows == 0..(NRows - 1)
\* the rasters are one pixel wide
Cols == {0}

Pols == {"VV", "VH"}

\* The file names a tile directory may hold.
FileNames ==
    { [pol |-> "VV", ext |-> ".img", date |-> <<0, 1>>],
      [pol |-> "VV", ext |-> ".img", date |-> <<0, 3>>],
      [pol |-> "VV", ext |-> ".tif", date |-> <<0, 2>>],
      [pol |-> "VV", ext |-> ".img.aux.xml", date |-> <<0, 1>>],
      [pol |-> "VH", ext |-> ".img", date |-> <<0, 1>>] }

\* The rasters of polarization VV; the other names never pass a filter for VV.
RastersVV == {f \in FileNames : f.pol = "VV" /\ f.ext \in {".img", ".tif"}}

\* the substring tests of the file filters
HasImg(fname) == fname.ext \in {".img", ".img.aux.xml"}
HasAuxXml(fname) == fname.ext = ".img.aux.xml"
HasTif(fname) == fname.ext = ".tif"
HasPol(fname, p) == fname.pol = p

\* harmonic_fitting keeps the .img and the .tif rasters of the polarization
KeepSeq(fname, p) ==
    \/ HasImg(fname) /\ HasPol(fname, p) /\ ~HasAuxXml(fname)
    \/ HasTif(fname) /\ HasPol(fname, p)

\* harmonic_fitting_br keeps the .img rasters only
KeepBr(fname, p) ==
    HasImg(fname) /\ HasPol(fname, p) /\ ~HasAuxXml(fname)

\* os.listdir: the names in some order
RECURSIVE ListDir(_)
ListDir(S) ==
    IF S = {} THEN <<>>
    ELSE LET f == CHOOSE f \in S : TRUE IN <<f>> \o ListDir(S \ {f})

Keep(fn, fname, p) ==
    IF fn = "harmonic_fitting" THEN KeepSeq(fname, p) ELSE KeepBr(fname, p)

\* fnames = _sort_fnames(list(filter(..., os.listdir(dir_ard))))
FitFnames(fn) ==
    LET Test(fname) == Keep(fn, fname, pol)
    IN  _sort_fnames(SelectSeq(ListDir(dirArd), Test))

freq == DaysPerYear
num_pair == HarmonicPairs

\* x = _getVariable(freq, _get_doy(fnames, freq), 1 + num_pair * 2)
DesignX(names) == _getVariable(freq, _get_doy(names, freq), 1 + num_pair * 2)

\* A read_img that leaves the no-data value in the array.
read_img_raw(fname) == [r \in Rows |-> [c \in Cols |-> rasters[fname][r][c]]]

\* read_img(fname): np.where(values == novalue, np.nan, values)
read_img(fname) ==
    [r \in Rows |-> [c \in Cols |->
        IF FloatEq(rasters[fname][r][c], novalue) THEN NaN
        ELSE rasters[fname][r][c]]]

\* values_row[:, col_each] for the row: the pixel's series, one per raster
Series(names, r, c) == [j \in DOMAIN names |-> read_img(names[j])[r][c]]

\* s[~np.isnan(y)]
RECURSIVE Masked(_, _)
Masked(s, y) ==
    IF s = <<>> THEN <<>>
    ELSE (IF IsNaN(Head(y)) THEN <<>> ELSE <<Head(s)>>)
         \o Masked(Tail(s), Tail(y))

\* Lasso(max_iter=10000, alpha=alpha).fit(x_new, y_new): the fitted object
Lasso(x_new, y_new) == [x |-> x_new, y |-> y_new]

\* np.insert(coefficients, 0, intercept) of a fitted pixel: lasso.intercept_,
\* then lasso.coef_[0], lasso.coef_[1], ..., one per column of x
FitCoefs(lasso) ==
    [bands |-> <<"intercept_">> \o
                [j \in 1..Len(lasso.x[1]) |-> "coef_" \o ToString(j - 1)],
     lasso |-> <<lasso>>]

\* np.insert(coefficients, 0, intercept) of a pixel without observations
NaNCoefs == [bands |-> <<NaN>> \o [j \in 1..(1 + num_pair * 2) |-> NaN],
             lasso |-> <<>>]

\* The body of the column loop: the coefficients of one pixel.
PixelCoefs(x, y) ==
    LET x_new == Masked(x, y)
        y_new == Masked(y, y)
    IN  IF Len(y_new) # 0 THEN FitCoefs(Lasso(x_new, y_new)) ELSE NaNCoefs

\* coefs_row of a row
CoefsRow(names, r) ==
    [c \in Cols |-> PixelCoefs(DesignX(names), Series(names, r, c))]

\* The row calls the regression for some pixel.
RowFits(names, r) ==
    \E c \in Cols : Len(Masked(Series(names, r, c), Series(names, r, c))) # 0

\* np.zeros / np.memmap(mode="w+") of shape (2 + num_pair * 2, n_rows, n_cols)
ZeroCoefs == [bands |-> [j \in 1..(2 + num_pair * 2) |-> "0"], lasso |-> <<>>]
ZeroBuffer == [r \in Rows |-> [c \in Cols |-> ZeroCoefs]]

Fns == {"harmonic_fitting", "harmonic_fitting_br"}
NoRaster == <<>>

UNCHANGED_INPUT == UNCHANGED <<poolVars, dirExists, dirArd, rasters, novalue,
                               pol, threads_number, meta, gfVars, doyVars, stageVars>>

\* The geometry of a raster of the tile: RasterYSize, RasterXSize,
\* GetGeoTransform(), GetProjection().
TileMeta == [n_rows |-> NRows, n_cols |-> 1, trans |-> "trans0", proj |-> "proj0"]

\* n_rows, n_cols, trans, proj: read from fnames[0]
n_rows == meta[fnames[1]].n_rows
n_cols == meta[fnames[1]].n_cols
trans == meta[fnames[1]].trans
proj == meta[fnames[1]].proj

\* np.array([value[row, :] for value in values]) gives the 2-d array of the
\* row: every raster has the row, and the rows are of one length.
RowReadable(names, row) ==
    /\ \A j \in DOMAIN names : row < meta[names[j]].n_rows
    /\ \A j, k \in DOMAIN names : meta[names[j]].n_cols = meta[names[k]].n_cols

\* Every row of range_row is readable.
StackReadable(names) ==
    \A row \in 0..(meta[names[1]].n_rows - 1) : RowReadable(names, row)

\* harmonic_fitting ended for a reason the directory decides: it is done, or
\* it stopped at the directory test, the empty list or an unreadable row.
EndedByInput(how) ==
    \/ how = "done"
    \/ fpc = "start"
    \/ fpc = "rows" /\ ~RowReadable(fnames, row_each)

\* The function that runs ends.  harmonic_fitting_br is called after
\* harmonic_fitting, on the same directory, unless harmonic_fitting was
\* stopped by a failure of the regression or of gdal.
FnEnds(how) ==
    /\ ended' = [ended EXCEPT ![fitFn] = how]
    /\ fitFn' = IF fitFn = "harmonic_fitting" /\ EndedByInput(how)
              THEN "harmonic_fitting_br" ELSE "end"
    /\ fpc' = IF fitFn = "harmonic_fitting" /\ EndedByInput(how)
            THEN "start" ELSE "end"
    /\ row_each' = 0

\* sys.exit("No ARD generated for tile {}".format(tile_index))
SysExitNoARD == "sys.exit: No ARD generated for tile <tile_index>"

\* From the directory test to the allocation of the coefficient buffer:
\* sys.exit on a missing directory, IndexError at fnames[0] on an empty list.
FitSetup ==
    /\ fitFn \in Fns
    /\ fpc = "start"
    /\ IF ~dirExists \/ FitFnames(fitFn) = <<>>
       THEN /\ FnEnds(IF ~dirExists THEN SysExitNoARD ELSE "aborted")
            /\ UNCHANGED <<fnames, lasso_coefs, tmpExists>>
       ELSE /\ fnames' = FitFnames(fitFn)
            /\ lasso_coefs' = [r \in 0..(meta[FitFnames(fitFn)[1]].n_rows - 1) |->
                                  [c \in Cols |-> ZeroCoefs]]
            /\ tmpExists' = (tmpExists \/ fitFn = "harmonic_fitting_br")
            /\ fpc' = IF fitFn = "harmonic_fitting" THEN "rows" ELSE "starmap"
            /\ UNCHANGED <<fitFn, ended, row_each>>
    /\ UNCHANGED <<writes, writers, outRaster,
                   outMeta>>
    /\ UNCHANGED_INPUT

\* harmonic_fitting: one pass of the row loop; reading the row raises when
\* the rasters do not all have it at one length, and the regression may raise.
SeqRow(raises) ==
    /\ fitFn = "harmonic_fitting"
    /\ fpc = "rows"
    /\ row_each < n_rows
    /\ raises => RowReadable(fnames, row_each) /\ RowFits(fnames, row_each)
    /\ IF raises \/ ~RowReadable(fnames, row_each)
       THEN /\ FnEnds("aborted")
            /\ UNCHANGED lasso_coefs
       ELSE /\ lasso_coefs' = [lasso_coefs EXCEPT
                                 ![row_each] = CoefsRow(fnames, row_each)]
            /\ row_each' = row_each + 1
            /\ fpc' = IF row_each + 1 = n_rows THEN "write" ELSE "rows"
            /\ UNCHANGED <<fitFn, ended>>
    /\ UNCHANGED <<fnames, tmpExists, writes, writers, outRaster, outMeta>>
    /\ UNCHANGED_INPUT

\* pool.starmap(_cal_row, [...]): building the task list raises at a row
\* that cannot be read; otherwise the pool pickles each task to hand it to a
\* worker process, _cal_row is a function defined inside harmonic_fitting_br,
\* which pickle cannot look up by name, and starmap raises AttributeError
\* ("Can't pickle local object") before any task runs.  Either way the
\* function ends here: no row of the buffer is written.
BrStarmapRaise ==
    /\ fitFn = "harmonic_fitting_br"
    /\ fpc = "starmap"
    /\ FnEnds("aborted")
    /\ UNCHANGED <<fnames, lasso_coefs, tmpExists, writes, writers, outRaster, outMeta>>
    /\ UNCHANGED_INPUT

\* harmonic_fitting writes the coefficient raster from the buffer; gdal may
\* fail.
FitWrite(fails) ==
    /\ fitFn = "harmonic_fitting"
    /\ fpc = "write"
    /\ IF fails
       THEN /\ FnEnds("aborted")
            /\ UNCHANGED <<outRaster, outMeta>>
       ELSE /\ outRaster' = [outRaster EXCEPT ![fitFn] = <<lasso_coefs>>]
            /\ outMeta' = [outMeta EXCEPT ![fitFn] =
                    [n_cols |-> n_cols, n_rows |-> n_rows,
                     bands |-> Len(lasso_coefs[0][0].bands),
                     trans |-> trans, proj |-> proj]]
            /\ FnEnds("done")
    /\ UNCHANGED <<fnames, lasso_coefs, tmpExists, writes, writers>>
    /\ UNCHANGED_INPUT

\* The driver and the pool do not run.
PoolIdle ==
    /\ driver = "none"
    /\ parallel = TRUE
    /\ nUnits = 0
    /\ poolSize = 1
    /\ pc = "idle"
    /\ i = 0
    /\ success_count = 0
    /\ failure_count = 0
    /\ queue = <<>>
    /\ slot = PoolNew(1)
    /\ closed = FALSE
    /\ ret = [t \in Tasks |-> NoRet]
    /\ starts = [t \in Tasks |-> 0]
    /\ outcome = [t \in Tasks |-> "none"]

AllObserved == [r \in Rows |-> [c \in Cols |-> Observation]]

FitInit ==
    /\ dirExists \in BOOLEAN
    /\ dirArd \in {{}} \cup {S \cup (FileNames \ RastersVV) : S \in SUBSET RastersVV}
    /\ ~dirExists => dirArd = {}
    /\ novalue \in {NoDataNumber, NaN}
    /\ pol \in Pols
    /\ threads_number \in 1..MaxProcs
    /\ \E content \in [{f \in dirArd : KeepSeq(f, pol)} ->
                          [Rows -> [Cols -> {novalue, Observation}]]] :
        rasters = [f \in FileNames |->
                      IF f \in DOMAIN content THEN content[f] ELSE AllObserved]
    /\ fitFn = "harmonic_fitting"
    /\ fpc = "start"
    /\ ended = [fn \in Fns |-> "no"]
    /\ fnames = <<>>
    /\ row_each = 0
    /\ lasso_coefs = ZeroBuffer
    /\ tmpExists = FALSE
    /\ writes = [r \in Rows |-> 0]
    /\ writers = [r \in Rows |-> {}]
    /\ outRaster = [fn \in Fns |-> NoRaster]
    /\ meta = [f \in FileNames |-> TileMeta]
    /\ outMeta = [fn \in Fns |-> NoRaster]

FitNext ==
    \/ FitSetup
    \/ \E raises \in BOOLEAN : SeqRow(raises)
    \/ BrStarmapRaise
    \/ \E fails \in BOOLEAN : FitWrite(fails)

InitFit == PoolIdle /\ FitInit /\ GfIdle /\ DoyIdle /\ StageIdle

SpecFit == InitFit /\ [][FitNext]_vars

-----------------------------------------------------------------------------
(***************************************************************************)
(* The fit on a stack whose rasters need not share their geometry: at most *)
(* one raster of the directory is a row shorter, a column wider, or has    *)
(* another geotransform or projection than the tile's.                     *)
(***************************************************************************)

OddKinds == {"shorter", "wider", "trans", "proj"}

\* The geometry of a raster that is odd in one respect.
OddMeta(kind) ==
    [n_rows |-> IF kind = "shorter" THEN NRows - 1 ELSE TileMeta.n_rows,
     n_cols |-> IF kind = "wider" THEN TileMeta.n_cols + 1 ELSE TileMeta.n_cols,
     trans |-> IF kind = "trans" THEN "trans1" ELSE TileMeta.trans,
     proj |-> IF kind = "proj" THEN "proj1" ELSE TileMeta.proj]

StackInit ==
    /\ dirExists = TRUE
    /\ \E S \in (SUBSET RastersVV) \ {{}} : dirArd = S \cup (FileNames \ RastersVV)
    /\ novalue = NoDataNumber
    /\ pol = "VV"
    /\ threads_number \in 1..MaxProcs
    /\ rasters = [f \in FileNames |-> AllObserved]
    /\ \/ meta = [f \in FileNames |-> TileMeta]
       \/ \E odd \in RastersVV \cap dirArd, kind \in OddKinds :
            meta = [f \in FileNames |-> IF f = odd THEN OddMeta(kind) ELSE TileMeta]
    /\ fitFn = "harmonic_fitting"
    /\ fpc = "start"
    /\ ended = [fn \in Fns |-> "no"]
    /\ fnames = <<>>
    /\ row_each = 0
    /\ lasso_coefs = ZeroBuffer
    /\ tmpExists = FALSE
    /\ writes = [r \in Rows |-> 0]
    /\ writers = [r \in Rows |-> {}]
    /\ outRaster = [fn \in Fns |-> NoRaster]
    /\ outMeta = [fn \in Fns |-> NoRaster]

InitStack == PoolIdle /\ StackInit /\ GfIdle /\ DoyIdle /\ StageIdle

SpecStack == InitStack /\ [][FitNext]_vars

-----------------------------------------------------------------------------
(***************************************************************************)
(* The aligner on its own: _get_doy is given any list of at most MaxDates  *)
(* file names of the years 0..MaxYear and a frequency.                     *)
(***************************************************************************)

\* The dates a file name can carry.
Dates == {<<year, day>> : year \in 0..MaxYear, day \in 1..(DaysPerYear + 1)}
            \ {<<year, DaysPerYear + 1>> : year \in {y \in 0..MaxYear : ~IsLeap(y)}}

\* The file of a date.
FileOf(date) == [pol |-> "VV", date |-> date, ext |-> ".img"]

\* The frequencies: about half a year, a common year, a leap year.
Freqs == {DaysPerYear - 2, DaysPerYear, DaysPerYear + 1}

DoyInit ==
    /\ \E n \in 1..MaxDates : \E ds \in [1..n -> Dates] :
            doyNames = [j \in 1..n |-> FileOf(ds[j])]
    /\ doyFreq \in Freqs
    /\ doy_arr = <<>>
    /\ apc = "start"
    /\ designPairs = 0
    /\ design = <<>>

\* The call _get_doy(fnames, freq).
DoyAlign ==
    /\ apc = "start"
    /\ doy_arr' = _get_doy(doyNames, doyFreq)
    /\ apc' = "done"
    /\ UNCHANGED <<doyNames, doyFreq, designPairs, design, poolVars, fitVars,
                   gfVars, stageVars>>

DoyNext == DoyAlign

InitDoy == PoolIdle /\ FitIdle /\ GfIdle /\ DoyInit /\ StageIdle

SpecDoy == InitDoy /\ [][DoyNext]_vars

-----------------------------------------------------------------------------
(***************************************************************************)
(* The design matrix on its own: _getVariable is given any array of at     *)
(* most MaxDates coordinates, a frequency and 1 + 2 * n_pairs columns.     *)
(***************************************************************************)

\* The coordinates _get_doy can return for the frequencies.
Coords == 0..(DaysPerYear + 1)

DesignInit ==
    /\ doyNames = <<>>
    /\ doyFreq \in Freqs
    /\ \E n \in 0..MaxDates : doy_arr \in [1..n -> Coords]
    /\ apc = "design"
    /\ designPairs \in 0..MaxPairs
    /\ design = <<>>

\* The call x = _getVariable(freq, days, 1 + num_pair * 2).
DesignBuild ==
    /\ apc = "design"
    /\ design' = _getVariable(doyFreq, doy_arr, 1 + designPairs * 2)
    /\ apc' = "built"
    /\ UNCHANGED <<doyNames, doyFreq, doy_arr, designPairs, poolVars, fitVars,
                   gfVars, stageVars>>

DesignNext == DesignBuild

InitDesign == PoolIdle /\ FitIdle /\ GfIdle /\ DesignInit /\ StageIdle

SpecDesign == InitDesign /\ [][DesignNext]_vars

-----------------------------------------------------------------------------
(***************************************************************************)
(* guided_filter_batch and guided_filter.  The rasters of dir_clip are of  *)
(* type float32, one band and one row.  A stored value v is the record     *)
(* [v |-> v]; a value the filter computes is the record of the operation   *)
(* and its operands.                                                       *)
(***************************************************************************)

Px(v) == [v |-> v]

\* The file names dir_clip may hold.
ClipNames ==
    { [pol |-> "VV", ext |-> ".img", date |-> <<0, 1>>],
      [pol |-> "VV", ext |-> ".img", date |-> <<0, 3>>],
      [pol |-> "VV", ext |-> ".img.aux.xml", date |-> <<0, 1>>] }

\* The kernel sizes and the regularization parameters.
Ksizes == {1, 3}
Epss == {0, 1}

\* cv2's default border: the index mirrored at the edge pixel.
Reflect101(idx, n) ==
    IF idx < 1 THEN 2 - idx ELSE IF idx > n THEN 2 * n - idx ELSE idx

\* _boxfilter(src, ksize): the mean over the window of ksize pixels
_boxfilter(src, ksize) ==
    [p \in DOMAIN src |->
        [op |-> "mean",
         l |-> [d \in 1..ksize |->
                   src[Reflect101(p - (ksize \div 2) + d - 1, Len(src))]],
         r |-> ksize]]

\* a op b, element by element
Elementwise(op, a, b) == [p \in DOMAIN a |-> [op |-> op, l |-> a[p], r |-> b[p]]]

\* _guidedfilter(fsrc, src, ksize, eps)
_guidedfilter(fsrc, src, ksize, eps) ==
    LET mean_guided == _boxfilter(fsrc, ksize)
        mean_img == _boxfilter(src, ksize)
        mean_gi == _boxfilter(Elementwise("*", fsrc, src), ksize)
        mean_gg == _boxfilter(Elementwise("*", fsrc, fsrc), ksize)
        cov_gi == Elementwise("-", mean_gi, Elementwise("*", mean_guided, mean_img))
        var_g == Elementwise("-", mean_gg, Elementwise("*", mean_guided, mean_guided))
        a == Elementwise("/", cov_gi,
                [p \in DOMAIN var_g |-> [op |-> "+eps", l |-> var_g[p], r |-> eps]])
        b == Elementwise("-", mean_img, Elementwise("*", a, mean_guided))
        mean_a == _boxfilter(a, ksize)
        mean_b == _boxfilter(b, ksize)
    IN  Elementwise("+", Elementwise("*", mean_a, fsrc), mean_b)

\* np.where(cond, x, y)
np_where(cond, x, y) == [p \in DOMAIN cond |-> IF cond[p] THEN x[p] ELSE y[p]]

\* np.isnan(a) and a == b of stored values
PxIsNaN(a) == a = Px(NaN)
PxEq(a, b) == a # Px(NaN) /\ b # Px(NaN) /\ a = b

\* The -9999 that stands in for no-data while the filter runs.
Fill(band_raw) == [p \in DOMAIN band_raw |-> Px("-9999")]

\* A guided_filter that finds the no-data pixels by == whatever the value.
guided_filter_by_eq(band_raw, nodata, ksize, eps) ==
    IF nodata # "None"
    THEN LET novalue32 == Px(nodata)
             mask == [p \in DOMAIN band_raw |-> PxEq(band_raw[p], novalue32)]
             band == np_where(mask, Fill(band_raw), band_raw)
             band_filter == _guidedfilter(band, band, ksize, eps)
         IN  [band |-> np_where(mask, band_raw, band_filter), nodata |-> nodata]
    ELSE [band |-> _guidedfilter(band_raw, band_raw, ksize, eps),
          nodata |-> "None"]

\* guided_filter(src_path, ksize, eps, dst_dir): the band written and the
\* no-data value set on it
guided_filter(band_raw, nodata, ksize, eps) ==
    IF nodata # "None"
    THEN LET novalue32 == Px(nodata)
             mask == IF nodata = NaN
                     THEN [p \in DOMAIN band_raw |-> PxIsNaN(band_raw[p])]
                     ELSE [p \in DOMAIN band_raw |-> PxEq(band_raw[p], novalue32)]
             band == np_where(mask, Fill(band_raw), band_raw)
             band_filter == _guidedfilter(band, band, ksize, eps)
         IN  [band |-> np_where(mask, band_raw, band_filter), nodata |-> nodata]
    ELSE [band |-> _guidedfilter(band_raw, band_raw, ksize, eps),
          nodata |-> "None"]

\* sys.exit("No clip generated for tile {}".format(tile_index))
SysExitNoClip == "sys.exit: No clip generated for tile <tile_index>"
\* print / logger.info of the same text
MsgNoClip == "No clip generated for tile <tile_index>"
\* logger.info on the logger that is None
AttributeErrorNone == "AttributeError: 'NoneType' object has no attribute 'info'"

\* ".img" in fname and ".aux.xml" not in fname
KeepClip(fname) == HasImg(fname) /\ ~HasAuxXml(fname)

UNCHANGED_GF_INPUT == UNCHANGED <<poolVars, fitVars, doyVars, stageVars, clipExists,
                                  logger,
                                  dirClip, gfBand, gfNoData, gfKsize, gfEps>>

\* From the directory test to the submission of the files.
GfStart ==
    /\ gfpc = "start"
    /\ IF ~clipExists
       THEN /\ gfEnd' = IF logger = "None" THEN AttributeErrorNone
                        ELSE SysExitNoClip
            /\ gfPrinted' = IF logger = "None" THEN gfPrinted
                            ELSE Append(gfPrinted, MsgNoClip)
            /\ gfpc' = "end"
            /\ UNCHANGED gfPending
       ELSE /\ gfPending' = {f \in dirClip : KeepClip(f)}
            /\ gfpc' = "drain"
            /\ UNCHANGED <<gfEnd, gfPrinted>>
    /\ UNCHANGED <<gfLogged, dirArdOut>>
    /\ UNCHANGED_GF_INPUT

\* The pool runs guided_filter on one of the files submitted.
GfTask(f) ==
    /\ gfpc = "drain"
    /\ f \in gfPending
    /\ gfPending' = gfPending \ {f}
    /\ dirArdOut' = (f :> guided_filter(gfBand, gfNoData, gfKsize, gfEps)) @@ dirArdOut
    /\ UNCHANGED <<gfpc, gfEnd, gfPrinted, gfLogged>>
    /\ UNCHANGED_GF_INPUT

\* drain() returns; close()
GfDone ==
    /\ gfpc = "drain"
    /\ gfPending = {}
    /\ gfpc' = "end"
    /\ gfEnd' = "done"
    /\ UNCHANGED <<gfPrinted, gfLogged, gfPending, dirArdOut>>
    /\ UNCHANGED_GF_INPUT

GfInit ==
    /\ clipExists \in BOOLEAN
    /\ logger \in {"None", "logger"}
    /\ dirClip \in SUBSET ClipNames
    /\ ~clipExists => dirClip = {}
    /\ gfBand \in [1..GfWidth -> {Px(NoDataNumber), Px(NaN), Px(Observation)}]
    /\ gfNoData \in {"None", NoDataNumber, NaN}
    /\ gfKsize \in Ksizes
    /\ gfEps \in Epss
    /\ gfpc = "start"
    /\ gfEnd = "no"
    /\ gfPrinted = <<>>
    /\ gfLogged = <<>>
    /\ gfPending = {}
    /\ dirArdOut = <<>>

GfNext ==
    \/ GfStart
    \/ \E f \in ClipNames : GfTask(f)
    \/ GfDone

InitGf == PoolIdle /\ FitIdle /\ GfInit /\ DoyIdle /\ StageIdle

SpecGf == InitGf /\ [][GfNext]_vars

(***************************************************************************)
(* s1_harmonic_each, for one tile of s1_harmonic_batch: the clipping       *)
(* command, guided_filter_batch with its FixedThreadPoolExecutor, then the *)
(* fits of the polarizations.  A fit is one call here: it ends by writing  *)
(* its raster or by an exception.                                          *)
(***************************************************************************)

\* for pol in ['VV', 'VH']
EachPols == <<"VV", "VH">>

\* What s1_harmonic_each finds in big_ram when s1_harmonic_batch calls it:
\* executor.submit(s1_harmonic_each, tile_index, config_path, logger,
\* gf_out_format, thread_clip) leaves the parameter at its default, False;
\* the loop over the tiles passes big_ram on.
EachBigRam(par_tile, b_ram) == IF par_tile THEN FALSE ELSE b_ram

\* if big_ram: harmonic_fitting_br(...) else: harmonic_fitting(...)
EachFitFn(b_ram) == IF b_ram THEN "harmonic_fitting_br" ELSE "harmonic_fitting"

\* "tile{}_{}_harmonic.tif".format(tile_index, pol)
DstPath(p) == "tile<tile_index>_" \o p \o "_harmonic.tif"

\* guided_filter_batch has returned before its pool was drained.
GfSubmitted == pc \in {"drain", "close", "done"}

\* guided_filter_batch has returned: after gf_executor.close().
GfReturned == pc = "done"

FitRunning == fitLog # <<>> /\ fitLog[Len(fitLog)].end = "running"

UNCHANGED_EACH_INPUT == UNCHANGED <<parallel_tile, batch_big_ram, big_ram,
                                    keep_mid, driver, parallel, nUnits,
                                    poolSize, fitVars, gfVars, doyVars,
                                    notEachVars>>

\* _run_cmd('Rscript s1_gather_tile_cli.R ...'): what it returns is not
\* looked at; dir_clip_<tile_index> exists afterwards or not.
EachClip(made) ==
    /\ epc = "clip"
    /\ clipped' = made
    /\ epc' = "gf_call"
    /\ UNCHANGED <<polIdx, fitLog, dirCoefs, dirsRemoved, pc, i,
                   success_count, failure_count, queue, slot, closed, ret,
                   starts, outcome>>
    /\ UNCHANGED_EACH_INPUT

\* guided_filter_batch(str(tile_index), config, gf_out_format, logger), up to
\* the construction of the pool: sys.exit when dir_clip is missing.
EachGfCall ==
    /\ epc = "gf_call"
    /\ IF clipped
       THEN /\ epc' = "gf"
            /\ pc' = IF nUnits = 0 THEN "drain" ELSE "submit"
       ELSE /\ epc' = "aborted"
            /\ pc' = pc
    /\ UNCHANGED <<clipped, polIdx, fitLog, dirCoefs, dirsRemoved, i,
                   success_count, failure_count, queue, slot, closed, ret,
                   starts, outcome>>
    /\ UNCHANGED_EACH_INPUT

\* guided_filter_batch returns; logger.info("Finish guided filter ...").
EachGfReturn ==
    /\ epc = "gf"
    /\ GfReturned
    /\ epc' = "fit"
    /\ UNCHANGED <<clipped, polIdx, fitLog, dirCoefs, dirsRemoved, pc, i,
                   success_count, failure_count, queue, slot, closed, ret,
                   starts, outcome>>
    /\ UNCHANGED_EACH_INPUT

\* The loop over the polarizations calls the fit of the next one.
EachFitStart ==
    /\ epc = "fit"
    /\ polIdx < Len(EachPols)
    /\ ~FitRunning
    /\ fitLog' = Append(fitLog, [fn |-> EachFitFn(big_ram),
                                 pol |-> EachPols[polIdx + 1],
                                 end |-> "running"])
    /\ UNCHANGED <<epc, clipped, polIdx, dirCoefs, dirsRemoved, pc, i,
                   success_count, failure_count, queue, slot, closed, ret,
                   starts, outcome>>
    /\ UNCHANGED_EACH_INPUT

\* The fit returns after writing its raster, or ends by an exception, which
\* ends s1_harmonic_each.  harmonic_fitting_br never returns: at the latest
\* its pool.starmap raises.
EachFitEnd(how) ==
    /\ epc = "fit"
    /\ FitRunning
    /\ how = "done" => fitLog[Len(fitLog)].fn = "harmonic_fitting"
    /\ fitLog' = [fitLog EXCEPT ![Len(fitLog)].end = how]
    /\ IF how = "done"
       THEN /\ dirCoefs' = Append(dirCoefs, DstPath(fitLog[Len(fitLog)].pol))
            /\ polIdx' = polIdx + 1
            /\ epc' = epc
       ELSE /\ dirCoefs' = dirCoefs
            /\ polIdx' = polIdx
            /\ epc' = "aborted"
    /\ UNCHANGED <<clipped, dirsRemoved, pc, i, success_count, failure_count,
                   queue, slot, closed, ret, starts, outcome>>
    /\ UNCHANGED_EACH_INPUT

\* if not config['harmonic']['keep_mid']: shutil.rmtree(dir_clip),
\* shutil.rmtree(dir_ard); s1_harmonic_each returns.
EachRemove ==
    /\ epc = "fit"
    /\ polIdx = Len(EachPols)
    /\ dirsRemoved' = ~keep_mid
    /\ epc' = "done"
    /\ UNCHANGED <<clipped, polIdx, fitLog, dirCoefs, pc, i, success_count,
                   failure_count, queue, slot, closed, ret, starts, outcome>>
    /\ UNCHANGED_EACH_INPUT

\* The pool of guided_filter_batch, not built yet.
EachPoolInit ==
    /\ driver = "guided_filter_batch"
    /\ parallel = TRUE
    /\ nUnits \in 0..MaxUnits
    /\ poolSize \in 1..MaxSize
    /\ pc = "idle"
    /\ i = 0
    /\ success_count = 0
    /\ failure_count = 0
    /\ queue = <<>>
    /\ slot = PoolNew(poolSize)
    /\ closed = FALSE
    /\ ret = [t \in Tasks |-> NoRet]
    /\ starts = [t \in Tasks |-> 0]
    /\ outcome = [t \in Tasks |-> "none"]

EachInit ==
    /\ parallel_tile \in BOOLEAN
    /\ batch_big_ram \in BOOLEAN
    /\ big_ram = EachBigRam(parallel_tile, batch_big_ram)
    /\ keep_mid \in BOOLEAN
    /\ epc = "clip"
    /\ clipped = FALSE
    /\ polIdx = 0
    /\ fitLog = <<>>
    /\ dirCoefs = <<>>
    /\ dirsRemoved = FALSE

EachNext ==
    \/ \E made \in BOOLEAN : EachClip(made)
    \/ EachGfCall
    \/ DriverSubmit
    \/ WorkerStep
    \/ DrainReturn
    \/ Close
    \/ EachGfReturn
    \/ EachFitStart
    \/ \E how \in {"done", "aborted"} : EachFitEnd(how)
    \/ EachRemove

InitEach == EachPoolInit /\ FitIdle /\ GfIdle /\ DoyIdle /\ EachInit
            /\ CallsIdle /\ S2Idle /\ WaspIdle /\ HubIdle /\ PepsIdle /\ ScenesIdle

SpecEach == InitEach /\ [][EachNext]_vars

(***************************************************************************)
(* The calls a batch driver makes on its pool.  The pool is a black box    *)
(* here: submit() answers with any value.                                  *)
(***************************************************************************)

\* What submit() may answer.
SubmitAnswers == {"True", "False", "None"}

\* A driver that leaves its loop at the first submit that is not accepted.
AfterSubmitStopping(answer, k) ==
    IF answer # "True" \/ k = nUnits THEN "drain" ELSE "submit"

\* Where the driver is after the k-th submit has answered: the for loop goes
\* on to the next unit whatever the answer, and to drain() after the last.
AfterSubmit(answer, k) == IF k = nUnits THEN "drain" ELSE "submit"

UNCHANGED_CALLS == UNCHANGED <<driver, parallel, nUnits, poolSize, queue, slot,
                               starts, outcome, fitVars, gfVars, doyVars,
                               notCallVars>>

\* One pass of `for unit in units: if executor.submit(...) is True: ...`
CallSubmit(answer) ==
    /\ pc = "submit"
    /\ i < nUnits
    /\ calls' = Append(calls, "submit")
    /\ ret' = [ret EXCEPT ![i] = answer]
    /\ success_count' = IF Counting(driver) /\ answer = "True"
                        THEN success_count + 1 ELSE success_count
    /\ failure_count' = IF Counting(driver) /\ answer # "True"
                        THEN failure_count + 1 ELSE failure_count
    /\ i' = i + 1
    /\ pc' = AfterSubmit(answer, i + 1)
    /\ UNCHANGED closed
    /\ UNCHANGED_CALLS

\* executor.drain()
CallDrain ==
    /\ pc = "drain"
    /\ calls' = Append(calls, "drain")
    /\ pc' = "close"
    /\ UNCHANGED <<i, success_count, failure_count, closed, ret>>
    /\ UNCHANGED_CALLS

\* executor.close(); the driver logs its counts and returns.
CallClose ==
    /\ pc = "close"
    /\ calls' = Append(calls, "close")
    /\ closed' = TRUE
    /\ pc' = "done"
    /\ UNCHANGED <<i, success_count, failure_count, ret>>
    /\ UNCHANGED_CALLS

CallsInit ==
    /\ driver \in Drivers
    /\ parallel = TRUE
    /\ nUnits \in 0..MaxUnits
    /\ poolSize \in 1..MaxSize
    /\ pc = IF nUnits = 0 THEN "drain" ELSE "submit"
    /\ i = 0
    /\ success_count = 0
    /\ failure_count = 0
    /\ queue = <<>>
    /\ slot = PoolNew(poolSize)
    /\ closed = FALSE
    /\ ret = [t \in Tasks |-> NoRet]
    /\ starts = [t \in Tasks |-> 0]
    /\ outcome = [t \in Tasks |-> "none"]
    /\ calls = <<>>

CallsNext ==
    \/ \E answer \in SubmitAnswers : CallSubmit(answer)
    \/ CallDrain
    \/ CallClose

InitCalls == CallsInit /\ FitIdle /\ GfIdle /\ DoyIdle /\ EachIdle /\ S2Idle
             /\ WaspIdle /\ HubIdle /\ PepsIdle /\ ScenesIdle

SpecCalls == InitCalls /\ [][CallsNext]_vars

(***************************************************************************)
(* s2_preprocess_each: one Sentinel-2 product, from its SAFE directory or  *)
(* its zip through sen2cor to fmask.                                       *)
(***************************************************************************)

\* The products of download_path.
Tiles == 1..MaxTiles

\* "{}.SAFE".format(tile_name) and its zip
SafeOf(t) == [tile |-> t, ext |-> "SAFE"]
ZipOf(t) == [tile |-> t, ext |-> "zip"]

\* _run_cmd(cmd, logger): True when the command exits with 0
_run_cmd(status) == IF status = 0 THEN "True" ELSE "False"

\* `not value` for the values a function returns here
Not(value) == value \in {"None", "False"}

\* What s2_atmospheric_correction returns after running sen2cor: it calls
\* _run_cmd(cmd, logger) and has no return statement.
s2_atmospheric_correction(status) == "None"

ExitNoProduct == "exit: s2_preprocess_each: No zip or SAFE file found"
ExitSen2corPath == "exit: sen2cor_path is not set correctly."
ExitCorrectionFailed == "exit: s2_preprocess_each: Atmospheric correction failed"

UNCHANGED_S2_INPUT == UNCHANGED <<tile_name, sen2cor_path, poolVars, fitVars,
                                  gfVars, doyVars, notS2Vars>>

\* The product is looked for: the SAFE directory is used as it is, a zip is
\* unzipped next to it, and with neither the function exits.
S2Locate ==
    /\ s2pc = "locate"
    /\ IF SafeOf(tile_name) \in download_path
       THEN /\ keep' = TRUE
            /\ s2pc' = "sen2cor"
            /\ UNCHANGED <<download_path, s2End, s2Log>>
       ELSE IF ZipOf(tile_name) \in download_path
       THEN /\ keep' = FALSE
            /\ download_path' = download_path \cup {SafeOf(tile_name)}
            /\ s2Log' = Append(s2Log, "_unzip_file")
            /\ s2pc' = "sen2cor"
            /\ UNCHANGED s2End
       ELSE /\ s2End' = ExitNoProduct
            /\ s2pc' = "end"
            /\ UNCHANGED <<download_path, keep, s2Log>>
    /\ UNCHANGED cmdStatus
    /\ UNCHANGED_S2_INPUT

\* if not s2_atmospheric_correction(...): logger.error(...); exit(...)
\* The correction exits itself when sen2cor_path is not usable; otherwise it
\* runs sen2cor, and what it returns is tested.
S2Correct(status) ==
    /\ s2pc = "sen2cor"
    /\ IF sen2cor_path = "missing"
       THEN /\ s2End' = ExitSen2corPath
            /\ UNCHANGED <<cmdStatus, s2Log>>
       ELSE /\ cmdStatus' = status
            /\ s2Log' = Append(s2Log, "sen2cor")
            /\ s2End' = IF Not(s2_atmospheric_correction(status))
                        THEN ExitCorrectionFailed ELSE "no"
    /\ s2pc' = IF sen2cor_path # "missing"
                  /\ ~Not(s2_atmospheric_correction(status))
               THEN "fmask" ELSE "end"
    /\ UNCHANGED <<download_path, keep>>
    /\ UNCHANGED_S2_INPUT

S2Init ==
    /\ download_path \in SUBSET ({SafeOf(t) : t \in Tiles} \cup
                                 {ZipOf(t) : t \in Tiles})
    /\ tile_name \in Tiles
    /\ sen2cor_path \in {"missing", "exists"}
    /\ cmdStatus = -1
    /\ keep = TRUE
    /\ s2pc = "locate"
    /\ s2End = "no"
    /\ s2Log = <<>>

S2Next ==
    \/ S2Locate
    \/ \E status \in {0, 1} : S2Correct(status)

InitS2 == PoolIdle /\ FitIdle /\ GfIdle /\ DoyIdle /\ EachIdle /\ CallsIdle
          /\ S2Init /\ WaspIdle /\ HubIdle /\ PepsIdle /\ ScenesIdle

SpecS2 == InitS2 /\ [][S2Next]_vars

(***************************************************************************)
(* s2_wasp: the synthesis of one tile over the intervals of time_series.   *)
(* A date is a day number; the products of the tile are known by their     *)
(* dates.                                                                  *)
(***************************************************************************)

\* The dates of the products, and those of the boundaries of time_series.
WaspDates == 1..WaspDays
WaspBounds == 1..(WaspDays + 1)

\* The elements of a set of numbers in ascending order.
Ascending(S) ==
    CHOOSE q \in [1..Cardinality(S) -> S] :
        \A a, b \in 1..Cardinality(S) : a < b => q[a] < q[b]

\* safe_path_sub: the products with d1 <= date < d2
safe_path_sub(d1, d2) == {p \in safe_path : d1 <= p /\ p < d2}

ExitNoWaspImage == "sys.exit: There is no docker image wasp running."
ExitNoProductBetween == "sys.exit: There is no atmospheric corrected tile between d1 and d2"
IndexErrorTimeSeries == "IndexError: list index out of range"

UNCHANGED_WASP_INPUT == UNCHANGED <<time_series, zips, docker, poolVars,
                                    fitVars, gfVars, doyVars, notWaspVars>>

\* The zips of the tile are unzipped into processed_path and the directories
\* of the tile are listed.
WaspUnzip ==
    /\ wpc = "unzip"
    /\ safe_dirs' = safe_dirs \cup zips
    /\ safe_path' = safe_dirs \cup zips
    /\ wpc' = "loop"
    /\ UNCHANGED <<wi, syntheses, waspEnd>>
    /\ UNCHANGED_WASP_INPUT

\* One pass of `for i in range(len(time_series))`: d1 = time_series[i],
\* d2 = time_series[i + 1], which raises when i is the last index.  With
\* products in the interval the docker image is looked for and the synthesis
\* is run on a copy in tmp_wasp_<tile>, which is removed again; without
\* products the function exits.
WaspInterval(imageOk, runOk) ==
    /\ wpc = "loop"
    /\ wi < Len(time_series)
    /\ IF wi + 2 > Len(time_series)
       THEN /\ waspEnd' = IndexErrorTimeSeries
            /\ wpc' = "end"
            /\ UNCHANGED <<wi, syntheses>>
       ELSE LET d1 == time_series[wi + 1]
                d2 == time_series[wi + 2]
            IN  IF safe_path_sub(d1, d2) = {}
                THEN /\ waspEnd' = ExitNoProductBetween
                     /\ wpc' = "end"
                     /\ UNCHANGED <<wi, syntheses>>
                ELSE IF docker /\ ~imageOk
                THEN /\ waspEnd' = ExitNoWaspImage
                     /\ wpc' = "end"
                     /\ UNCHANGED <<wi, syntheses>>
                ELSE /\ syntheses' =
                        IF docker
                        THEN Append(syntheses, [d1 |-> d1, d2 |-> d2,
                                                products |-> safe_path_sub(d1, d2),
                                                ok |-> runOk])
                        ELSE syntheses
                     /\ wi' = wi + 1
                     /\ UNCHANGED <<wpc, waspEnd>>
    /\ UNCHANGED <<safe_dirs, safe_path>>
    /\ UNCHANGED_WASP_INPUT

\* After the loop: for each in safe_path: shutil.rmtree(...); return.
WaspDelete ==
    /\ wpc = "loop"
    /\ wi = Len(time_series)
    /\ safe_dirs' = safe_dirs \ safe_path
    /\ waspEnd' = "done"
    /\ wpc' = "end"
    /\ UNCHANGED <<safe_path, wi, syntheses>>
    /\ UNCHANGED_WASP_INPUT

WaspInit ==
    /\ \E S \in SUBSET WaspBounds : time_series = Ascending(S)
    /\ zips \in SUBSET WaspDates
    /\ safe_dirs \in SUBSET WaspDates
    /\ docker \in BOOLEAN
    /\ safe_path = {}
    /\ wi = 0
    /\ syntheses = <<>>
    /\ wpc = "unzip"
    /\ waspEnd = "no"

WaspNext ==
    \/ WaspUnzip
    \/ \E imageOk, runOk \in BOOLEAN : WaspInterval(imageOk, runOk)
    \/ WaspDelete

InitWasp == PoolIdle /\ FitIdle /\ GfIdle /\ DoyIdle /\ EachIdle /\ CallsIdle
            /\ S2Idle /\ WaspInit /\ HubIdle /\ PepsIdle /\ ScenesIdle

SpecWasp == InitWasp /\ [][WaspNext]_vars

(***************************************************************************)
(* scihub_downloader: query the scenes, then pass over the unfinished ones *)
(* until every title has its zip in the download directory.                *)
(***************************************************************************)

SceneIds == 1..MaxScenes
Platforms == {"S1", "S2", "L8"}
\* What follows the title in the name of a file of the download directory.
FileEndings == {".zip", ".zip.incomplete", ".SAFE"}
\* The answers of the service to the request of an offline product.
PollStatuses == {202, 403, 503}

\* ".zip" in fn
HasZip(ending) == ending \in {".zip", ".zip.incomplete"}
\* fn.replace('.zip', ''), on the part after the title
WithoutZip(ending) ==
    CASE ending = ".zip" -> ""
      [] ending = ".zip.incomplete" -> ".incomplete"
      [] OTHER -> ending

\* SentinelClient.get_finished_titles: the names holding ".zip", without it.
get_finished_titles(directory) ==
    {[title |-> f.title, rest |-> WithoutZip(f.ending)] :
        f \in {g \in directory : HasZip(g.ending)}}

\* item['title'] of a found scene, as a name to compare with those.
TitleOf(scene) == [title |-> scene, rest |-> ""]

\* The keys of scenes whose title is not among the finished ones, in the
\* order of the dictionary.
ScenesLeft(found, directory) ==
    Ascending({s \in found : TitleOf(s) \notin get_finished_titles(directory)})

\* sc.download_one(scene_id): SentinelClient defines download_one_scihub and
\* download_all_scihub, and no download_one.
AttributeErrorDownloadOne == "AttributeError: 'SentinelClient' object has no attribute 'download_one'"

UNCHANGED_HUB_INPUT == UNCHANGED <<platformname, directory_path, poolVars,
                                   fitVars, gfVars, doyVars, notHubVars>>

\* The platform is looked at and the scenes are found.
HubQuery(found) ==
    /\ hpc = "start"
    /\ IF platformname \in {"S1", "S2"}
       THEN /\ hubScenes' = found
            /\ hpc' = "filter"
            /\ UNCHANGED hubEnd
       ELSE /\ hubEnd' = "done"
            /\ hpc' = "end"
            /\ UNCHANGED hubScenes
    /\ UNCHANGED <<scene_ids, hubWaits, hubPolls>>
    /\ UNCHANGED_HUB_INPUT

\* The head of a pass: the finished titles are filtered out; with none left
\* the loop is left and the function returns.
HubFilter ==
    /\ hpc = "filter"
    /\ scene_ids' = ScenesLeft(hubScenes, directory_path)
    /\ IF Len(scene_ids') = 0
       THEN hubEnd' = "done" /\ hpc' = "end"
       ELSE hpc' = "scene" /\ UNCHANGED hubEnd
    /\ UNCHANGED <<hubScenes, hubWaits, hubPolls>>
    /\ UNCHANGED_HUB_INPUT

\* The first scene of the pass: an online one is downloaded with
\* sc.download_one, an offline one is polled.
HubScene(isOnline) ==
    /\ hpc = "scene"
    /\ IF isOnline
       THEN hubEnd' = AttributeErrorDownloadOne /\ hpc' = "end"
       ELSE hpc' = "poll" /\ UNCHANGED hubEnd
    /\ UNCHANGED <<hubScenes, scene_ids, hubWaits, hubPolls>>
    /\ UNCHANGED_HUB_INPUT

\* One request of the offline product: 202 goes on to sc.download_one, 403
\* sleeps before the next request, anything else asks again at once.
HubPoll(status) ==
    /\ hpc = "poll"
    /\ status # 202 => Len(hubPolls) < MaxPolls
    /\ hubPolls' = Append(hubPolls, status)
    /\ hubWaits' = IF status = 403 THEN Append(hubWaits, Len(hubPolls'))
                                   ELSE hubWaits
    /\ IF status = 202
       THEN hubEnd' = AttributeErrorDownloadOne /\ hpc' = "end"
       ELSE UNCHANGED <<hubEnd, hpc>>
    /\ UNCHANGED <<hubScenes, scene_ids>>
    /\ UNCHANGED_HUB_INPUT

HubInit ==
    /\ platformname \in Platforms
    /\ directory_path \in SUBSET [title : SceneIds, ending : FileEndings]
    /\ hubScenes = {}
    /\ scene_ids = <<>>
    /\ hubPolls = <<>>
    /\ hubWaits = <<>>
    /\ hpc = "start"
    /\ hubEnd = "no"

HubNext ==
    \/ \E found \in SUBSET SceneIds : HubQuery(found)
    \/ HubFilter
    \/ \E isOnline \in BOOLEAN : HubScene(isOnline)
    \/ \E status \in PollStatuses : HubPoll(status)

InitHub == PoolIdle /\ FitIdle /\ GfIdle /\ DoyIdle /\ EachIdle /\ CallsIdle
           /\ S2Idle /\ WaspIdle /\ HubInit /\ PepsIdle /\ ScenesIdle

SpecHub == InitHub /\ [][HubNext]_vars

(***************************************************************************)
(* peps_downloader: the products selected from the catalog are fetched     *)
(* into write_dir in passes, until a pass counts nothing left to fetch.    *)
(***************************************************************************)

Products == 1..MaxProds
Storages == {"disk", "tape", "staging"}
\* What curl leaves in the temporary file: nothing, the whole product, a
\* part of it, or a JSON error message.
CurlOutcomes == {"none", "complete", "partial", "json"}

ZipFile(prod) == [prod |-> prod, kind |-> "zip"]
SafeDir(prod) == [prod |-> prod, kind |-> "SAFE"]

\* os.path.exists(<prod>.SAFE) or os.path.exists(<prod>.zip)
file_exists(dir, prod) == SafeDir(prod) \in dir \/ ZipFile(prod) \in dir

\* list(download_dict.keys())
ProdList == Ascending(download_dict)

\* What check_rename does to write_dir: a file of the wrong size is removed
\* (or the program exits, when it is JSON); a whole one becomes <prod>.zip,
\* which with options.extract is unzipped and removed, also when the
\* unzipping failed.
check_rename(dir, prod, left, unzipOk) ==
    IF left # "complete" THEN dir
    ELSE IF ~extract THEN dir \cup {ZipFile(prod)}
    ELSE IF unzipOk THEN (dir \cup {SafeDir(prod)}) \ {ZipFile(prod)}
    ELSE dir \ {ZipFile(prod)}

\* Whether check_rename left the product out of write_dir.
Discards(left, unzipOk) ==
    \/ left = "partial"
    \/ left = "complete" /\ extract /\ ~unzipOk

ExitTextFile == "sys.exit(-1)"

UNCHANGED_PEPS_INPUT == UNCHANGED <<download_dict, no_download, extract,
                                    poolVars, fitVars, gfVars, doyVars,
                                    notPepsVars>>

\* After the catalog is read: nothing selected ends the function; otherwise
\* the products on tape are requested once, to stage them, and every
\* selected product counts as to download.
PepsStart ==
    /\ ppc = "start"
    /\ IF download_dict = {}
       THEN /\ pepsEnd' = "done"
            /\ ppc' = "end"
            /\ UNCHANGED NbProdsToDownload
       ELSE /\ NbProdsToDownload' = Cardinality(download_dict)
            /\ ppc' = "while"
            /\ UNCHANGED pepsEnd
    /\ UNCHANGED <<storage_dict, write_dir, pk, discarded>>
    /\ UNCHANGED_PEPS_INPUT

\* while NbProdsToDownload > 0: the catalog is asked again for the storage
\* of the products and the count starts from 0.
PepsWhile(storage) ==
    /\ ppc = "while"
    /\ IF NbProdsToDownload > 0
       THEN /\ storage_dict' = storage
            /\ NbProdsToDownload' = 0
            /\ pk' = 1
            /\ discarded' = {}
            /\ ppc' = "disk"
            /\ UNCHANGED pepsEnd
       ELSE /\ pepsEnd' = "done"
            /\ ppc' = "end"
            /\ UNCHANGED <<storage_dict, NbProdsToDownload, pk, discarded>>
    /\ UNCHANGED write_dir
    /\ UNCHANGED_PEPS_INPUT

\* One product of the first loop of a pass: a missing product on disk is
\* fetched; without a temporary file it is counted, with one check_rename
\* decides.
PepsDisk(left, unzipOk) ==
    /\ ppc = "disk"
    /\ pk <= Len(ProdList)
    /\ LET prod == ProdList[pk]
           fetch == /\ ~no_download
                    /\ ~file_exists(write_dir, prod)
                    /\ storage_dict[prod] = "disk"
       IN  IF fetch /\ left = "json"
           THEN /\ pepsEnd' = ExitTextFile
                /\ ppc' = "end"
                /\ UNCHANGED <<write_dir, NbProdsToDownload, pk, discarded>>
           ELSE /\ NbProdsToDownload' =
                      IF fetch /\ left = "none"
                      THEN NbProdsToDownload + 1 ELSE NbProdsToDownload
                /\ write_dir' =
                      IF fetch THEN check_rename(write_dir, prod, left, unzipOk)
                      ELSE write_dir
                /\ discarded' =
                      IF fetch /\ Discards(left, unzipOk)
                      THEN discarded \cup {prod} ELSE discarded
                /\ pk' = pk + 1
                /\ UNCHANGED <<ppc, pepsEnd>>
    /\ UNCHANGED storage_dict
    /\ UNCHANGED_PEPS_INPUT

\* The second loop of a pass: the missing products on tape or in staging
\* are counted; with any counted the function sleeps before the next pass.
PepsTape ==
    /\ ppc = "disk"
    /\ pk > Len(ProdList)
    /\ NbProdsToDownload' = NbProdsToDownload + Cardinality(
          {prod \in download_dict :
              /\ ~no_download
              /\ ~file_exists(write_dir, prod)
              /\ storage_dict[prod] \in {"tape", "staging"}})
    /\ ppc' = "while"
    /\ UNCHANGED <<storage_dict, write_dir, pk, discarded, pepsEnd>>
    /\ UNCHANGED_PEPS_INPUT

PepsInit ==
    /\ download_dict \in SUBSET Products
    /\ storage_dict \in [download_dict -> Storages]
    /\ write_dir \in SUBSET [prod : Products, kind : {"zip", "SAFE"}]
    /\ no_download \in BOOLEAN
    /\ extract \in BOOLEAN
    /\ NbProdsToDownload = 0
    /\ pk = 1
    /\ discarded = {}
    /\ ppc = "start"
    /\ pepsEnd = "no"

PepsNext ==
    \/ PepsStart
    \/ \E storage \in [download_dict -> Storages] : PepsWhile(storage)
    \/ \E left \in CurlOutcomes, unzipOk \in BOOLEAN :
           PepsDisk(left, unzipOk)
    \/ PepsTape

InitPeps == PoolIdle /\ FitIdle /\ GfIdle /\ DoyIdle /\ EachIdle /\ CallsIdle
            /\ S2Idle /\ WaspIdle /\ HubIdle /\ PepsInit /\ ScenesIdle

SpecPeps == InitPeps /\ [][PepsNext]_vars

(***************************************************************************)
(* SentinelClient.get_scenes: one query per feature of the footprint, the  *)
(* results gathered in all_scenes.  A feature is known by the scenes its   *)
(* query returns.                                                          *)
(***************************************************************************)

\* The footprints: 1..MaxFeatures features.
Footprints ==
    UNION {[1..n -> SUBSET SceneIds] : n \in 1..MaxFeatures}

\* The stop of `for i in range(1, stop)` over the features after the first.
RangeStop(platform, n) ==
    IF platform = "S1" THEN n ELSE n - 1

ExitNotSupported == "exit: Not supported producttype in this class."

UNCHANGED_SCENES_INPUT == UNCHANGED <<client_platform, footprint, poolVars,
                                      fitVars, gfVars, doyVars, notSceneVars>>

\* The query of feature 0 (geojson_to_wkt's default feature_number), or the
\* exit on another platform than S1 and S2.
GsFirst ==
    /\ gpc = "first"
    /\ IF client_platform \in {"S1", "S2"}
       THEN /\ all_scenes' = footprint[1]
            /\ queried' = {0}
            /\ gi' = 1
            /\ gpc' = "more"
            /\ UNCHANGED gsEnd
       ELSE /\ gsEnd' = ExitNotSupported
            /\ gpc' = "end"
            /\ UNCHANGED <<all_scenes, queried, gi>>
    /\ UNCHANGED_SCENES_INPUT

\* One pass of the loop over the other features: feature i is queried and
\* all_scenes.update(scenes).
GsMore ==
    /\ gpc = "more"
    /\ Len(footprint) > 1
    /\ gi < RangeStop(client_platform, Len(footprint))
    /\ all_scenes' = all_scenes \cup footprint[gi + 1]
    /\ queried' = queried \cup {gi}
    /\ gi' = gi + 1
    /\ UNCHANGED <<gpc, gsEnd>>
    /\ UNCHANGED_SCENES_INPUT

\* return all_scenes
GsReturn ==
    /\ gpc = "more"
    /\ ~(Len(footprint) > 1 /\ gi < RangeStop(client_platform, Len(footprint)))
    /\ gsEnd' = "returned"
    /\ gpc' = "end"
    /\ UNCHANGED <<all_scenes, queried, gi>>
    /\ UNCHANGED_SCENES_INPUT

ScenesInit ==
    /\ client_platform \in Platforms
    /\ footprint \in Footprints
    /\ all_scenes = {}
    /\ queried = {}
    /\ gi = 0
    /\ gpc = "first"
    /\ gsEnd = "no"

ScenesNext == GsFirst \/ GsMore \/ GsReturn

InitScenes == PoolIdle /\ FitIdle /\ GfIdle /\ DoyIdle /\ EachIdle /\ CallsIdle
              /\ S2Idle /\ WaspIdle /\ HubIdle /\ PepsIdle /\ ScenesInit

SpecScenes == InitScenes /\ [][ScenesNext]_vars

-----------------------------------------------------------------------------
(* Claims about the pool and the batch drivers *)

Failed == {t \in 0..(nUnits - 1) : outcome[t] = "failed"}
Queued == Range(queue)

\* C1: a pool built with capacity N never runs more than N tasks at once and
\* never has more than its N workers; a task submitted while every worker is
\* busy waits in the queue.
C1_AtMostNRunning ==
    /\ DOMAIN slot = 1..poolSize
    /\ \A w \in DOMAIN slot : Cardinality(slot[w]) <= 1
    /\ Cardinality(Running) <= poolSize
    /\ \A t \in 0..(i - 1) :
        (ret[t] = "True" /\ outcome[t] = "none") => (t \in Running \/ t \in Queued)

\* More tasks were submitted than the pool has workers: all workers are busy
\* and a task waits.
C1_Witness ==
    /\ Cardinality(Running) = poolSize
    /\ queue # <<>>
    /\ i > poolSize

\* C2: drain() returns only when every task submitted before it has ended, by
\* success or by failure, so that none is queued or running afterwards; and,
\* every task terminating, a drain() that was called does return.
C2_DrainWaits ==
    /\ [](pc \in {"close", "done"} =>
            \A t \in 0..(nUnits - 1) :
                outcome[t] # "none" /\ t \notin Running /\ t \notin Queued)
    /\ (pc = "drain" ~> pc = "close")

\* drain() has returned after tasks ran on the pool, one of them failing.
C2_Witness ==
    /\ pc = "close"
    /\ nUnits >= 2
    /\ Failed # {}
    /\ \E t \in 0..(nUnits - 1) : outcome[t] = "ok"

\* C5, as claimed: the counts a driver reports add up to the number of units
\* and failure_count is the number of units whose task failed.
C5_CountsMatchOutcomes ==
    (pc = "done" /\ Counting(driver)) =>
        /\ success_count + failure_count = nUnits
        /\ failure_count = Cardinality(Failed)

\* C6: every task submit() accepted is started exactly once, whatever the
\* outcome of the others, and submit() answers True for every task it
\* accepted, whether the task later fails or not.
C6_StartedOnce ==
    /\ \A t \in Tasks : starts[t] <= 1
    /\ \A t \in Tasks : ret[t] = "True" => (t \in Queued \/ starts[t] = 1)
    /\ \A t \in 0..(i - 1) : parallel => ret[t] = "True"
    /\ pc \in {"close", "done"} =>
        \A t \in 0..(nUnits - 1) : starts[t] = 1 /\ outcome[t] # "none"

\* A task that was started after another one had failed, and it succeeded.
C6_Witness ==
    /\ parallel
    /\ pc = "done"
    /\ \E t, u \in 0..(nUnits - 1) :
        /\ t < u
        /\ outcome[t] = "failed" /\ ret[t] = "True"
        /\ outcome[u] = "ok" /\ starts[u] = 1

\* C7: once close() was called no worker is active, and a submit() is
\* rejected: it does not answer True and its task is never queued or run.
C7_ClosedRejects ==
    closed =>
        /\ Running = {}
        /\ ret[LateTask] # "True"
        /\ LateTask \notin Queued
        /\ starts[LateTask] = 0
        /\ outcome[LateTask] = "none"

\* A submit() was made on the closed pool.
C7_Witness == closed /\ ret[LateTask] = "False"

-----------------------------------------------------------------------------
(* Claims about the harmonic fit *)

SEQ == "harmonic_fitting"
BR == "harmonic_fitting_br"

\* The directory holds a stack harmonic_fitting_br can read row by row.
BrStackValid ==
    /\ dirExists
    /\ FitFnames(BR) # <<>>
    /\ StackReadable(FitFnames(BR))

\* C3, as claimed: in harmonic_fitting_br no row of the buffer is written
\* twice or by two tasks, and when the function has ended on a stack it can
\* read, every row 0..n_rows-1 was written exactly once, by one task.
C3_RowWrittenOnce ==
    /\ \A r \in Rows : writes[r] <= 1 /\ Cardinality(writers[r]) <= 1
    /\ (ended[BR] # "no" /\ BrStackValid) =>
        \A r \in Rows : writes[r] = 1 /\ Cardinality(writers[r]) = 1

\* C4, as claimed: tmp_<tile>.dat exists while the parallel fit runs and
\* exists no longer once harmonic_fitting_br has ended, normally or not.
C4_ScratchRemoved ==
    /\ (fitFn = BR /\ fpc = "starmap") => tmpExists
    /\ ended[BR] # "no" => ~tmpExists

\* C8, as claimed: on the same directory, polarization and configuration the
\* two strategies write the same coefficient raster.
C8_SameRaster ==
    (ended[SEQ] = "done" /\ ended[BR] # "no") => outRaster[SEQ] = outRaster[BR]

\* The pixel is no-data in every raster of the stack.
AllNoData(names, r, c) ==
    \A j \in DOMAIN names : rasters[names[j]][r][c] = novalue

\* What C9 asks of the coefficients of one pixel.
C9_Pixel(names, r, c, coefs) ==
    /\ Len(coefs.bands) = 2 + 2 * num_pair
    /\ AllNoData(names, r, c) =>
        /\ \A j \in DOMAIN coefs.bands : coefs.bands[j] = NaN
        /\ coefs.lasso = <<>>
    /\ ~AllNoData(names, r, c) =>
        /\ coefs.lasso # <<>>
        /\ \A j \in DOMAIN coefs.bands : coefs.bands[j] # NaN

\* C9, as claimed: in both strategies a pixel that is no-data in every
\* raster of the stack gets 2 + 2*n_pairs NaN coefficients and no regression
\* is run for it, and every other pixel gets the coefficients of a
\* regression: in the rows of the buffer computed so far, in the rasters
\* written, and, without an error, in the raster of harmonic_fitting_br once
\* it has ended on a stack it can read.
C9_AllNoDataIsNaN ==
    /\ (fitFn = SEQ /\ fpc \in {"rows", "write"}) =>
        \A r \in 0..(row_each - 1), c \in Cols :
            C9_Pixel(fnames, r, c, lasso_coefs[r][c])
    /\ \A fn \in DOMAIN outRaster : \A r \in Rows, c \in Cols :
        outRaster[fn] # NoRaster =>
            C9_Pixel(FitFnames(fn), r, c, outRaster[fn][1][r][c])
    /\ (ended[BR] # "no" /\ BrStackValid) =>
        \A r \in Rows, c \in Cols :
            AllNoData(FitFnames(BR), r, c) =>
                /\ outRaster[BR] # NoRaster
                /\ C9_Pixel(FitFnames(BR), r, c, outRaster[BR][1][r][c])

-----------------------------------------------------------------------------
(* Claims about the aligner *)

\* The days of year of the dates given, in the order of the dates.
RawDoys ==
    LET dates == SortDates([j \in DOMAIN doyNames |-> _get_date(doyNames[j])])
    IN  [j \in DOMAIN dates |-> _get_date_doy(dates[j])]

NonDecreasing(s) == \A j, k \in DOMAIN s : j <= k => s[j] <= s[k]

\* Largest minus smallest value is at most d.
SpansAtMost(s, d) == \A j, k \in DOMAIN s : s[j] - s[k] <= d

\* Every date lies before the anniversary of the earliest one.
WithinOneYear ==
    LET dates == SortDates([j \in DOMAIN doyNames |-> _get_date(doyNames[j])])
    IN  \A j \in DOMAIN dates :
            \/ dates[j][1] = dates[1][1]
            \/ dates[j][1] = dates[1][1] + 1 /\ dates[j][2] < dates[1][2]

\* C10, as claimed: for every list of file names whose days of year, in the
\* order of the dates, are not non-decreasing, _get_doy returns a
\* non-decreasing sequence whose values span at most freq.
C10_AlignedMonotone ==
    (apc = "done" /\ ~NonDecreasing(RawDoys)) =>
        NonDecreasing(doy_arr) /\ SpansAtMost(doy_arr, doyFreq)

\* C10, amended: the same, for the lists whose dates all lie before the
\* anniversary of the earliest date and a freq of at least the length of a
\* common year.
C10_AlignedWithinOneYear ==
    (apc = "done" /\ ~NonDecreasing(RawDoys) /\ WithinOneYear
        /\ doyFreq >= DaysPerYear) =>
        NonDecreasing(doy_arr) /\ SpansAtMost(doy_arr, doyFreq)

\* A series from a leap year into the next year, given out of order, was
\* aligned: days before the first one were wrapped forward.
C10_Witness ==
    /\ apc = "done"
    /\ Len(doyNames) >= 3
    /\ ~NonDecreasing(RawDoys)
    /\ WithinOneYear
    /\ doyFreq = DaysPerYear
    /\ IsLeap(_get_date(doyNames[Len(doyNames)])[1])
    /\ \E j \in DOMAIN doy_arr : doy_arr[j] = RawDoys[j] - RawDoys[1] + doyFreq
    /\ \E j \in DOMAIN doy_arr : j > 1 /\ doy_arr[j] = RawDoys[j] - RawDoys[1]

\* The file names carry dates of one calendar year.
OneCalendarYear ==
    \A j, k \in DOMAIN doyNames :
        _get_date(doyNames[j])[1] = _get_date(doyNames[k])[1]

\* How many entries of s equal v.
CountOf(s, v) == Cardinality({j \in DOMAIN s : s[j] = v})

\* C11: when the days of year of the dates, in date order, are already
\* non-decreasing, _get_doy returns exactly them; for dates of one calendar
\* year that is the days of year of the files given, in non-decreasing
\* order, and for a single file its own day of year.
C11_SortedUnchanged ==
    /\ (apc = "done" /\ NonDecreasing(RawDoys)) => doy_arr = RawDoys
    /\ (apc = "done" /\ OneCalendarYear) =>
        /\ NonDecreasing(doy_arr)
        /\ Len(doy_arr) = Len(doyNames)
        /\ \A d \in 1..(DaysPerYear + 1) :
            CountOf(doy_arr, d) =
                CountOf([j \in DOMAIN doyNames |-> _get_date(doyNames[j])[2]], d)
    /\ (apc = "done" /\ Len(doyNames) = 1) =>
        doy_arr = <<_get_date(doyNames[1])[2]>>

\* Files of one calendar year, given out of date order, not starting on the
\* first day, were aligned.
C11_Witness ==
    /\ apc = "done"
    /\ Len(doyNames) >= 3
    /\ OneCalendarYear
    /\ _get_date(doyNames[1])[2] > _get_date(doyNames[2])[2]
    /\ doy_arr[1] > 1
    /\ doy_arr[Len(doy_arr)] > doy_arr[1]

\* The dates of the file names, in date order.
DatesInOrder == SortDates([j \in DOMAIN doyNames |-> _get_date(doyNames[j])])

\* Equal coordinates at positions after the first belong to equal dates.
DistinctDatesDistinctCoords ==
    \A j, k \in DOMAIN doy_arr :
        (j > 1 /\ k > 1 /\ doy_arr[j] = doy_arr[k]) =>
            DatesInOrder[j] = DatesInOrder[k]

\* C12, as claimed: for file names of more than one calendar year the
\* coordinates _get_doy returns are equal, after the first position, only
\* for equal dates.
C12_DistinctCoords ==
    (apc = "done" /\ ~OneCalendarYear) => DistinctDatesDistinctCoords

\* C12, amended: the same, for the lists whose dates all lie before the
\* anniversary of the earliest date and a freq of at least the number of
\* days of the earliest date's year.
C12_DistinctCoordsWithinOneYear ==
    (apc = "done" /\ ~OneCalendarYear /\ WithinOneYear
        /\ doyFreq >= YearLen(DatesInOrder[1][1])) =>
        DistinctDatesDistinctCoords

\* A series from the last days of a leap year into the next year, with a
\* date given twice, was aligned with the leap year's length as freq.
C12_Witness ==
    /\ apc = "done"
    /\ Len(doyNames) >= 3
    /\ ~OneCalendarYear
    /\ WithinOneYear
    /\ IsLeap(DatesInOrder[1][1])
    /\ doyFreq = DaysPerYear + 1
    /\ DatesInOrder[Len(doyNames)] = DatesInOrder[Len(doyNames) - 1]
    /\ doy_arr[Len(doy_arr)] = doy_arr[Len(doy_arr) - 1]
    /\ doy_arr[2] > 0

\* C13, as claimed: every coordinate _get_doy returns lies in 1..freq.
C13_CoordsInPeriod ==
    apc = "done" => \A j \in DOMAIN doy_arr : doy_arr[j] \in 1..doyFreq

\* C13, amended: for a freq of at least the length of a common year, the
\* coordinates of an adjusted list lie in 0..freq, the first being 0, and
\* those of a list returned as it is are days of year, 1 up to the length of
\* a leap year.
C13_CoordsFromZero ==
    (apc = "done" /\ doyFreq >= DaysPerYear) =>
        IF NonDecreasing(RawDoys)
        THEN \A j \in DOMAIN doy_arr : doy_arr[j] \in 1..(DaysPerYear + 1)
        ELSE /\ doy_arr[1] = 0
             /\ \A j \in DOMAIN doy_arr : doy_arr[j] \in 0..doyFreq

\* A series reaching past the anniversary of its first date was adjusted for
\* the length of a common year: an earlier day of year was wrapped forward.
C13_Witness ==
    /\ apc = "done"
    /\ Len(doyNames) >= 3
    /\ ~NonDecreasing(RawDoys)
    /\ ~WithinOneYear
    /\ doyFreq = DaysPerYear
    /\ \E j \in DOMAIN doy_arr :
        RawDoys[j] < RawDoys[1] /\ doy_arr[j] = RawDoys[j] - RawDoys[1] + doyFreq

-----------------------------------------------------------------------------
(* Claims about the regression's inputs *)

\* The positions in the stack, in order, at which the pixel is not no-data.
ValidIdx(names, r, c) ==
    LET Valid(j) == rasters[names[j]][r][c] # novalue
    IN  SelectSeq([j \in DOMAIN names |-> j], Valid)

\* What C14 asks of the coefficients of one pixel.
C14_Pixel(names, r, c, coefs) ==
    coefs.lasso # <<>> =>
        LET fit == coefs.lasso[1]
            idx == ValidIdx(names, r, c)
        IN  /\ Len(fit.x) = Len(idx)
            /\ Len(fit.y) = Len(idx)
            /\ \A k \in DOMAIN idx :
                /\ fit.y[k] = rasters[names[idx[k]]][r][c]
                /\ fit.y[k] \notin {NaN, novalue}
                /\ fit.x[k] = DesignX(names)[idx[k]]

\* C14: the regression of a pixel gets the observations that are not
\* no-data, in stack order, and with each the row of the design matrix at the
\* same index, in the rows of the buffer computed so far and in the rasters
\* written.
C14_PairsKept ==
    /\ (fitFn = SEQ /\ fpc \in {"rows", "write"}) =>
        \A r \in 0..(row_each - 1), c \in Cols :
            C14_Pixel(fnames, r, c, lasso_coefs[r][c])
    /\ \A fn \in DOMAIN outRaster : \A r \in Rows, c \in Cols :
        outRaster[fn] # NoRaster =>
            C14_Pixel(FitFnames(fn), r, c, outRaster[fn][1][r][c])

\* A raster was written for a stack of three dates in which a pixel has a
\* numeric no-data value at the second date only: its regression got the
\* first and the third row of the design matrix.
C14_Witness ==
    /\ ended[SEQ] = "done"
    /\ novalue = NoDataNumber
    /\ Len(FitFnames(SEQ)) = 3
    /\ \E r \in Rows, c \in Cols :
        /\ ValidIdx(FitFnames(SEQ), r, c) = <<1, 3>>
        /\ outRaster[SEQ][1][r][c].lasso[1].x =
            <<DesignX(FitFnames(SEQ))[1], DesignX(FitFnames(SEQ))[3]>>

-----------------------------------------------------------------------------
(* Claims about the geometry of the stack and of the raster written *)

\* The rasters of the stack share height, width, geotransform and projection.
Uniform(names) == \A j, k \in DOMAIN names : meta[names[j]] = meta[names[k]]

\* C15, as claimed: a fit whose stack is not uniform ends aborted and writes
\* no coefficient raster.
C15_MismatchAborts ==
    \A fn \in DOMAIN ended :
        (ended[fn] # "no" /\ FitFnames(fn) # <<>> /\ ~Uniform(FitFnames(fn))) =>
            ended[fn] = "aborted" /\ outRaster[fn] = NoRaster

-----------------------------------------------------------------------------
(* Claims about missing input and about the guided filter *)

\* C16, as claimed: on a missing input directory, or one without a raster to
\* take, harmonic_fitting, harmonic_fitting_br and guided_filter_batch end
\* aborted with no raster written and no scratch file created, and on a
\* missing directory the abort is the sys.exit whose message names the tile,
\* with or without a logger.
C16_MissingInputAborts ==
    /\ \A fn \in DOMAIN ended :
        (ended[fn] # "no" /\ (~dirExists \/ FitFnames(fn) = <<>>)) =>
            /\ ended[fn] \in {"aborted", SysExitNoARD}
            /\ ~dirExists => ended[fn] = SysExitNoARD
            /\ outRaster[fn] = NoRaster
            /\ ~tmpExists
    /\ (gfpc = "end" /\ (~clipExists \/ {f \in dirClip : KeepClip(f)} = {})) =>
            /\ gfEnd \in {SysExitNoClip, AttributeErrorNone}
            /\ ~clipExists => gfEnd = SysExitNoClip
            /\ DOMAIN dirArdOut = {}

\* The positions of the band that hold its no-data value.
GfNoDataAt(p) ==
    /\ gfNoData # "None"
    /\ IF gfNoData = NaN THEN gfBand[p] = Px(NaN) ELSE gfBand[p] = Px(gfNoData)

\* C17: in every raster guided_filter wrote from a band with a no-data
\* value, a number or NaN, each pixel that is no-data in the input holds the
\* input value, not a computed one, for every kernel size and epsilon.
C17_NoDataKept ==
    \A f \in DOMAIN dirArdOut : \A p \in DOMAIN gfBand :
        GfNoDataAt(p) =>
            /\ dirArdOut[f].band[p] = gfBand[p]
            /\ "op" \notin DOMAIN dirArdOut[f].band[p]

\* A band with NaN as its no-data value, NaN in the middle and observations
\* around it, went through the filter with a kernel of three pixels: the
\* NaN is kept and the neighbours are computed values.
C17_Witness ==
    /\ gfEnd = "done"
    /\ gfNoData = NaN
    /\ gfKsize = 3
    /\ gfBand[2] = Px(NaN)
    /\ gfBand[1] = Px(Observation)
    /\ \E f \in DOMAIN dirArdOut :
        /\ dirArdOut[f].band[2] = Px(NaN)
        /\ "op" \in DOMAIN dirArdOut[f].band[1]

-----------------------------------------------------------------------------
(* Claims about the design matrix *)

\* ceil(j / 2) for j >= 0
HarmonicOf(j) == IF j % 2 = 1 THEN (j + 1) \div 2 ELSE j \div 2

\* C18: in every row of the matrix _getVariable built, column j, for j from
\* 1 to 2 * n_pairs, is the cosine of harmonic ceil(j / 2) at the row's
\* coordinate with a phase of (j mod 2) quarter periods: odd columns are the
\* sine phase and even columns the cosine of the same harmonic, so columns 1
\* and 2 have harmonic 1 and columns 3 and 4 harmonic 2.
C18_HarmonicColumns ==
    apc = "built" =>
        \A r \in DOMAIN design : \A j \in 1..(2 * designPairs) :
            /\ design[r][j + 1] =
                [kind |-> "cos", h |-> HarmonicOf(j), ph |-> j % 2,
                 t |-> doy_arr[r], freq |-> doyFreq]
            /\ j % 2 = 1 => design[r][j + 1].h = design[r][j + 2].h
            /\ j \in {1, 2} => design[r][j + 1].h = 1
            /\ j \in {3, 4} => design[r][j + 1].h = 2

\* A matrix for two pairs and several coordinates was built.
C18_Witness ==
    /\ apc = "built"
    /\ designPairs = 2
    /\ Len(design) >= 2
    /\ doy_arr[1] # doy_arr[2]
    /\ design[2][4].h = 2 /\ design[2][4].ph = 1
    /\ design[2][5].h = 2 /\ design[2][5].ph = 0

\* C19: the matrix has one row per coordinate and 1 + 2 * n_pairs columns,
\* and its column 0 holds the coordinates, for any number of coordinates
\* from 0 on and any n_pairs from 0 on.
C19_Shape ==
    apc = "built" =>
        /\ Len(design) = Len(doy_arr)
        /\ \A r \in DOMAIN design :
            /\ Len(design[r]) = 1 + 2 * designPairs
            /\ design[r][1] = [kind |-> "t", t |-> doy_arr[r]]

\* A matrix for no pair at all was built for several coordinates: it is the
\* column of the coordinates.
C19_Witness ==
    /\ apc = "built"
    /\ designPairs = 0
    /\ Len(doy_arr) >= 2
    /\ design = [r \in DOMAIN doy_arr |-> <<[kind |-> "t", t |-> doy_arr[r]]>>]

\* C20, as claimed: a fit that completed wrote a raster of 2 + 2 * n_pairs
\* bands with the width, the height, the geotransform and the projection of
\* its input rasters; band 1 of a fitted pixel is the intercept and band
\* k + 1 the coefficient of column k - 1 of the design matrix.
C20_RasterWritten ==
    \A fn \in DOMAIN ended : ended[fn] = "done" =>
        /\ outMeta[fn].bands = 2 + 2 * num_pair
        /\ \A j \in DOMAIN FitFnames(fn) :
            /\ outMeta[fn].n_cols = meta[FitFnames(fn)[j]].n_cols
            /\ outMeta[fn].n_rows = meta[FitFnames(fn)[j]].n_rows
            /\ outMeta[fn].trans = meta[FitFnames(fn)[j]].trans
            /\ outMeta[fn].proj = meta[FitFnames(fn)[j]].proj
        /\ \A r \in DOMAIN outRaster[fn][1], c \in Cols :
            LET coefs == outRaster[fn][1][r][c]
            IN  /\ Len(coefs.bands) = 2 + 2 * num_pair
                /\ coefs.lasso # <<>> =>
                    /\ coefs.bands[1] = "intercept_"
                    /\ \A k \in 1..(1 + 2 * num_pair) :
                        coefs.bands[k + 1] = "coef_" \o ToString(k - 1)

-----------------------------------------------------------------------------
(* Claims about s1_harmonic_each *)

\* Every guided-filter task of the tile was accepted, ran once and ended, and
\* the pool is drained and closed.
FilterFinished ==
    /\ closed
    /\ queue = <<>>
    /\ Running = {}
    /\ \A t \in 0..(nUnits - 1) :
        ret[t] = "True" /\ starts[t] = 1 /\ outcome[t] # "none"

\* C21: in s1_harmonic_each a fit starts only when every guided-filter task
\* submitted for the tile has finished and the pool is drained and closed;
\* the fits run one at a time, VV before VH, the fit of VH only after that of
\* VV has returned, and each fit that returned wrote one coefficient raster.
C21_FitsAfterFilter ==
    /\ fitLog # <<>> => FilterFinished
    /\ Len(fitLog) <= Len(EachPols)
    /\ \A k \in DOMAIN fitLog :
        /\ fitLog[k].pol = EachPols[k]
        /\ k < Len(fitLog) => fitLog[k].end = "done"
    /\ dirCoefs = [k \in 1..Cardinality({j \in DOMAIN fitLog :
                                            fitLog[j].end = "done"}) |->
                      DstPath(EachPols[k])]
    /\ epc = "done" => Len(dirCoefs) = Len(EachPols)

\* Both fits have returned after a batch of MaxUnits guided-filter tasks, one
\* of which failed.
C21_Witness ==
    /\ epc = "done"
    /\ nUnits = MaxUnits
    /\ \E t \in 0..(nUnits - 1) : outcome[t] = "failed"
    /\ Len(fitLog) = 2
    /\ dirCoefs = <<DstPath("VV"), DstPath("VH")>>

-----------------------------------------------------------------------------
(* Claims about the order of the stack and of the design rows *)

\* The days of year of the files, in the order _sort_fnames gives the files.
OwnDoys ==
    LET sorted == _sort_fnames(doyNames)
    IN  [j \in DOMAIN sorted |-> _get_date_doy(_get_date(sorted[j]))]

\* C22: _sort_fnames and _get_doy return as many entries as there are file
\* names, files of one date included as often as they are given; the i-th
\* coordinate is the day of year of the i-th sorted file, as it is or folded
\* onto the period that starts with the first file, and _get_doy returns the
\* same for the sorted list the fit hands it as for the unsorted one.
C22_SortAndDoyAgree ==
    apc = "done" =>
        LET sorted == _sort_fnames(doyNames)
        IN  /\ Len(sorted) = Len(doyNames)
            /\ Len(doy_arr) = Len(doyNames)
            /\ \A f \in Range(doyNames) :
                CountOf(sorted, f) = CountOf(doyNames, f)
            /\ _get_doy(sorted, doyFreq) = doy_arr
            /\ doy_arr =
                IF NonDecreasing(OwnDoys) THEN OwnDoys
                ELSE [j \in DOMAIN OwnDoys |->
                        IF OwnDoys[j] >= OwnDoys[1]
                        THEN OwnDoys[j] - OwnDoys[1]
                        ELSE OwnDoys[j] - OwnDoys[1] + doyFreq]

\* Three files, two of them of one date, given out of date order, of two
\* years, were aligned.
C22_Witness ==
    /\ apc = "done"
    /\ Len(doyNames) = 3
    /\ doyNames[1] = doyNames[3]
    /\ DateOrd(_get_date(doyNames[2])) < DateOrd(_get_date(doyNames[1]))
    /\ _get_date(doyNames[2])[1] # _get_date(doyNames[1])[1]
    /\ ~NonDecreasing(OwnDoys)

-----------------------------------------------------------------------------
(* Claims about the calls of the batch drivers on their pool *)

\* C24: every batch driver calls submit() once per unit, whatever the calls
\* answer, then drain() once, then close() once, and nothing after: the calls
\* made so far are the submits, then drain, then close, and the driver
\* reaches drain only with every unit submitted.
C24_SubmitsDrainClose ==
    /\ calls = [k \in 1..i |-> "submit"]
                \o (IF pc \in {"close", "done"} THEN <<"drain">> ELSE <<>>)
                \o (IF pc = "done" THEN <<"close">> ELSE <<>>)
    /\ pc \in {"drain", "close", "done"} => i = nUnits
    /\ pc = "submit" => i < nUnits

\* A driver has returned after MaxUnits submits, the first of which was not
\* answered with True.
C24_Witness ==
    /\ pc = "done"
    /\ nUnits = MaxUnits
    /\ ret[0] # "True"
    /\ ret[MaxUnits - 1] = "True"
    /\ Len(calls) = MaxUnits + 2

-----------------------------------------------------------------------------
(* Claims about the fit strategy of s1_harmonic_batch *)

\* C25, as claimed: every fit s1_harmonic_each calls for a tile of
\* s1_harmonic_batch is harmonic_fitting_br when the batch was called with
\* big_ram=True and harmonic_fitting when it was called with big_ram=False,
\* with parallel_tile True or False.
C25_StrategyFollowsBigRam ==
    \A k \in DOMAIN fitLog :
        fitLog[k].fn = IF batch_big_ram THEN "harmonic_fitting_br"
                       ELSE "harmonic_fitting"

-----------------------------------------------------------------------------
(* Claims about s2_preprocess_each *)

\* C26, as claimed: when the sen2cor command of the tile exited with 0,
\* s2_preprocess_each goes on to s2_fmask and does not end before it; it
\* exits with "Atmospheric correction failed" only when the command failed.
C26_FmaskAfterCorrection ==
    /\ (s2pc = "end" /\ cmdStatus = 0) => "s2_fmask" \in Range(s2Log)
    /\ s2End = ExitCorrectionFailed => cmdStatus # 0

-----------------------------------------------------------------------------
(* Claims about s2_wasp *)

\* The consecutive intervals of time_series.
Intervals ==
    [k \in 1..(Len(time_series) - 1) |-> <<time_series[k], time_series[k + 1]>>]

\* C27, as claimed: for a time_series of at least two boundary dates, every
\* interval of which has a product, s2_wasp (in docker mode, with the image
\* installed) has, when it ends, run the synthesis once for each of the
\* consecutive intervals, in order, deleted the product directories of the
\* tile and returned normally.
C27_IntervalsThenCleanup ==
    (/\ wpc = "end"
     /\ Len(time_series) >= 2
     /\ docker
     /\ waspEnd # ExitNoWaspImage
     /\ \A k \in DOMAIN Intervals :
            safe_path_sub(Intervals[k][1], Intervals[k][2]) # {})
    => /\ [k \in DOMAIN syntheses |-> <<syntheses[k].d1, syntheses[k].d2>>]
            = Intervals
       /\ waspEnd = "done"
       /\ safe_dirs = {}

-----------------------------------------------------------------------------
(* Claims about scihub_downloader *)

\* C28, as claimed: on platform S1 or S2 scihub_downloader returns only from
\* a pass in which every queried title is among the finished downloads; it
\* ends in no other way, every scene left being handled; and every answer
\* other than 202 to the request of an offline scene is followed by a wait
\* before the next request.
C28_ReturnsWhenAllFinished ==
    platformname \in {"S1", "S2"} =>
        /\ hubEnd = "done" =>
              \A s \in hubScenes :
                  TitleOf(s) \in get_finished_titles(directory_path)
        /\ hpc = "end" => hubEnd = "done"
        /\ \A k \in DOMAIN hubPolls :
              hubPolls[k] # 202 => \E w \in DOMAIN hubWaits : hubWaits[w] = k

-----------------------------------------------------------------------------
(* Claims about peps_downloader *)

\* C29, as claimed: when peps_downloader has returned with downloading
\* enabled, every product selected from the catalog is in the write
\* directory as <product>.zip or <product>.SAFE.
C29_AllSelectedPresent ==
    (pepsEnd = "done" /\ ~no_download) =>
        \A prod \in download_dict : file_exists(write_dir, prod)

-----------------------------------------------------------------------------
(* Claims about SentinelClient.get_scenes *)

\* C30, as claimed: what get_scenes returns is the union of the query
\* results of every feature of the footprint, each feature 0..n-1 having
\* been queried, on S1 and on S2.
C30_UnionOfAllFeatures ==
    gsEnd = "returned" =>
        /\ queried = 0..(Len(footprint) - 1)
        /\ all_scenes = UNION {footprint[k] : k \in 1..Len(footprint)}

=============================================================================
